---- MODULE Spec2Model ----
(***************************************************************************)
(* Bitget spot connector (hummingbot): the order / trade reconciliation    *)
(* performed by BitgetExchange over the user stream and the REST polls,    *)
(* and the place / cancel calls of the order lifecycle.                    *)
(*                                                                         *)
(* The connector code is bitget_exchange.py.  The order tracker it calls   *)
(* (ClientOrderTracker / InFlightOrder) and the polling loop of            *)
(* ExchangePyBase are modelled from the written specification.             *)
(***************************************************************************)
EXTENDS Integers, Sequences, FiniteSets, TLC

\* ------------------------------------------------------------------ bounds
MaxAmount == 2       \* largest requested base amount of an order
MaxFrame == 1        \* most order messages in one user-stream frame
MaxForeign == 1      \* fills of orders this connector never tracked
MaxTime == 2         \* clock ticks
MaxBalance == 1      \* largest available amount of an asset
MaxBatch == 2        \* most order messages in one frame of any content
MaxListing == 2      \* most instruments in one listing of the venue
MaxPairs == 3        \* most configured trading pairs

\* ------------------------------------------------------------- identifiers
None == "None"
UNKNOWN == "UNKNOWN"

ClientIds == {"c1"}
VenueOrderId(c) == IF c = "c1" THEN "o1" ELSE "o2"
ForeignOrderId == "o9"
TradeIdTable == <<"t1", "t2", "t3", "t4", "t5", "t6">>
\* the venue's id of the execution logged at position i of an order
VenueTradeId(c, i) == TradeIdTable[i]
ForeignTradeIdTable == <<"f1", "f2", "f3">>

\* ------------------------------------------------------ status mapping
ORDER_STATE ==
  [code \in {"new", "live", "partial-fill", "partially_filled", "filled",
             "canceled", "cancelled", "rejected", "expired", "full-fill"} |->
     CASE code \in {"new", "live"} -> "OPEN"
       [] code \in {"partial-fill", "partially_filled"} -> "PARTIALLY_FILLED"
       [] code \in {"filled", "full-fill"} -> "FILLED"
       [] code \in {"canceled", "cancelled"} -> "CANCELED"
       [] OTHER -> "FAILED"]

\* ------------------------------------------------ order tracker (InFlightOrder)
IsTerminal(s) == s \in {"FILLED", "CANCELED", "FAILED"}

NoOrder ==
  [tracked |-> FALSE, client_order_id |-> None, exchange_order_id |-> None,
   amount |-> 0, executed_amount_base |-> 0, current_state |-> "NONE",
   order_fills |-> {}]

\* start_tracking_order: a new order, not yet acknowledged by the venue
NewOrder(c, amt) ==
  [tracked |-> TRUE, client_order_id |-> c, exchange_order_id |-> None,
   amount |-> amt, executed_amount_base |-> 0,
   current_state |-> "PENDING_CREATE", order_fills |-> {}]

\* all_fillable_orders / all_updatable_orders: the lookups by client order id
\* find an order until it is purged, terminal ones in their grace period
\* included; what a terminal order does with an update is apply_*'s business
IsFillable(o) == o.tracked
IsUpdatable(o) == o.tracked
\* in_flight_orders: the active orders
IsInFlight(o) == o.tracked /\ ~IsTerminal(o.current_state)

OrderUpdate(c, x, s) ==
  [client_order_id |-> c, exchange_order_id |-> x, new_state |-> s]

TradeUpdate(t, c, x, amt) ==
  [trade_id |-> t, client_order_id |-> c, exchange_order_id |-> x,
   fill_base_amount |-> amt]

\* the terminal guard dropped: a plausible slip of apply_order_update
apply_order_update_unguarded(o, u) ==
  IF ~o.tracked \/ o.client_order_id # u.client_order_id
  THEN o
  ELSE [o EXCEPT
          !.exchange_order_id =
             IF @ = None /\ u.exchange_order_id # None
             THEN u.exchange_order_id ELSE @,
          !.current_state = u.new_state]

\* apply_order_update: unknown id is a no-op, a terminal state absorbs, the
\* first observed venue order id binds
apply_order_update(o, u) ==
  IF ~o.tracked \/ o.client_order_id # u.client_order_id
       \/ IsTerminal(o.current_state)
  THEN o
  ELSE [o EXCEPT
          !.exchange_order_id =
             IF @ = None /\ u.exchange_order_id # None
             THEN u.exchange_order_id ELSE @,
          !.current_state = u.new_state]

\* apply_trade_update: a duplicate trade_id is a no-op; otherwise the
\* cumulative amount grows and reaching the requested amount forces FILLED
apply_trade_update(o, tu) ==
  IF ~o.tracked \/ o.client_order_id # tu.client_order_id
       \/ tu.trade_id \in o.order_fills
  THEN o
  ELSE LET cum == o.executed_amount_base + tu.fill_base_amount
       IN [o EXCEPT
             !.order_fills = @ \cup {tu.trade_id},
             !.executed_amount_base = cum,
             !.current_state =
                IF ~IsTerminal(@) /\ cum >= o.amount THEN "FILLED" ELSE @]

\* ------------------------------------------------------------------ venue
\* What the exchange holds for one client order id: whether it accepted the
\* order, for which quantity, and the log of what happened to it.  An event is
\* "new", "fill" (an execution of sz) or "cancel"; hasFill tells whether the
\* stream message of the event carries the fill fields (fillSz, fillFee, ...).
NoVenueOrder == [accepted |-> FALSE, quantity |-> 0, log |-> <<>>]

VenueEvent(k, sz, hasFill) == [kind |-> k, sz |-> sz, hasFill |-> hasFill]

RECURSIVE SumSz(_)
SumSz(log) ==
  IF log = <<>> THEN 0
  ELSE (IF Head(log).kind = "fill" THEN Head(log).sz ELSE 0) + SumSz(Tail(log))

VenueExecuted(v) == SumSz(v.log)
VenueCancelled(v) == \E i \in 1..Len(v.log) : v.log[i].kind = "cancel"
VenueOpen(v) ==
  v.accepted /\ ~VenueCancelled(v) /\ VenueExecuted(v) < v.quantity

\* the status code the venue puts in the stream message of event i
VenueStatusCode(v, i) ==
  CASE v.log[i].kind = "new" -> "new"
    [] v.log[i].kind = "cancel" -> "cancelled"
    [] OTHER -> IF SumSz(SubSeq(v.log, 1, i)) < v.quantity
                THEN "partial-fill" ELSE "full-fill"

\* the orders-channel message of event i of client order c
WsOrderMsg(c, v, i) ==
  [clOrdId |-> c, ordId |-> VenueOrderId(c), status |-> VenueStatusCode(v, i),
   hasFill |-> v.log[i].hasFill, fillSz |-> v.log[i].sz, idx |-> i]

\* ------------------------------------------------------- user stream listener
Raised(os) == [raised |-> TRUE, orders |-> os]
Returned(os) == [raised |-> FALSE, orders |-> os]

\* _parse_websocket_trade_update: trade_id = str(trade_msg["ordId"])
WsTradeId(m) == m.ordId

\* _parse_websocket_trade_update: the fill fields are read without a check,
\* a message without them raises KeyError
parse_websocket_trade_update(m, o) ==
  IF ~m.hasFill
  THEN [raised |-> TRUE, update |-> TradeUpdate(None, None, None, 0)]
  ELSE [raised |-> FALSE,
        update |-> TradeUpdate(WsTradeId(m), o.client_order_id, m.ordId, m.fillSz)]

process_trade_event_message(os, m) ==
  IF m.clOrdId \in DOMAIN os /\ IsFillable(os[m.clOrdId])
  THEN LET r == parse_websocket_trade_update(m, os[m.clOrdId])
       IN IF r.raised THEN Raised(os)
          ELSE Returned([os EXCEPT ![m.clOrdId] = apply_trade_update(@, r.update)])
  ELSE Returned(os)

process_order_event_message(os, m) ==
  IF m.status \notin DOMAIN ORDER_STATE THEN Raised(os)
  ELSE IF m.clOrdId \in DOMAIN os /\ IsUpdatable(os[m.clOrdId])
  THEN Returned([os EXCEPT ![m.clOrdId] =
                   apply_order_update(@, OrderUpdate(m.clOrdId, m.ordId,
                                                     ORDER_STATE[m.status]))])
  ELSE Returned(os)

\* one order message of a frame: the fill part, then the status part
process_order_msg(os, m) ==
  LET r == process_trade_event_message(os, m)
  IN IF r.raised THEN r ELSE process_order_event_message(r.orders, m)

\* _user_stream_event_listener, one frame of the orders channel: the try block
\* encloses the loop, so an exception ends the frame
RECURSIVE user_stream_frame(_, _)
user_stream_frame(os, payload) ==
  IF payload = <<>> THEN os
  ELSE LET r == process_order_msg(os, Head(payload))
       IN IF r.raised THEN r.orders
          ELSE user_stream_frame(r.orders, Tail(payload))

\* the messages of a frame that the loop reaches
RECURSIVE frame_reached(_, _)
frame_reached(os, payload) ==
  IF payload = <<>> THEN {}
  ELSE LET r == process_order_msg(os, Head(payload))
       IN {Head(payload)} \cup
          (IF r.raised THEN {} ELSE frame_reached(r.orders, Tail(payload)))

\* --------------------------------------------------------------- REST: place
\* What _api_post gives _place_order: a response body, or an exception.
\*   kind "response": HTTP 200 with data.orderId and requestTime (milliseconds)
\*   kind "ioerror":  IOError whose text has / has not "status is 503" and
\*                    has / has not the venue's "Unknown error, ..." sentence
\*   kind "malformed": HTTP 200 whose body has no data.orderId (KeyError/TypeError)
PlaceResponse(x, ms) ==
  [kind |-> "response", orderId |-> x, requestTime |-> ms,
   status503 |-> FALSE, unknownError |-> FALSE]
PlaceIOError(s503, unk) ==
  [kind |-> "ioerror", orderId |-> None, requestTime |-> 0,
   status503 |-> s503, unknownError |-> unk]
PlaceMalformed ==
  [kind |-> "malformed", orderId |-> None, requestTime |-> 0,
   status503 |-> FALSE, unknownError |-> FALSE]

PlaceRaised == [raised |-> TRUE, o_id |-> None, transact_time |-> 0]
PlaceReturned(x, t) == [raised |-> FALSE, o_id |-> x, transact_time |-> t]

\* either marker alone taken for the overload signal
is_server_overloaded_either(post) == post.status503 \/ post.unknownError

\* is_server_overloaded = "status is 503" in text and "Unknown error, ..." in text
is_server_overloaded(post) == post.status503 /\ post.unknownError

\* _place_order, from the result of the POST on: (o_id, transact_time) or raise
place_order(post, now) ==
  CASE post.kind = "response" ->
         PlaceReturned(post.orderId, post.requestTime \div 1000)
    [] post.kind = "ioerror" ->
         IF is_server_overloaded(post) THEN PlaceReturned(UNKNOWN, now)
         ELSE PlaceRaised
    [] OTHER -> PlaceRaised

\* -------------------------------------------------------------- REST: cancel
\* the body of a cancel response: msg is "absent" when the key is missing
CancelMsgs == {"absent", "success", "Success", "error"}

\* any response that has a msg taken for success
place_cancel_result_any_msg(msg) == msg # "absent"

\* _place_cancel: cancel_result.get("msg") == "success"
place_cancel_result(msg) == msg = "success"

\* _place_cancel: api_params["orderId"] = tracked_order.exchange_order_id
place_cancel_order_id(o) == o.exchange_order_id

\* ------------------------------------------------------- REST: fills of an order
\* GET fills with orderId = x: the executions the venue holds for that order
RECURSIVE VenueFills(_, _, _)
VenueFills(c, log, i) ==
  IF i > Len(log) THEN <<>>
  ELSE (IF log[i].kind = "fill"
        THEN <<[tradeId |-> VenueTradeId(c, i), orderId |-> VenueOrderId(c),
                amount |-> log[i].sz, idx |-> i]>>
        ELSE <<>>) \o VenueFills(c, log, i + 1)

\* _all_trade_updates_for_order: trade_id = str(trade["tradeId"])
PollTradeId(trade) == trade.tradeId

RECURSIVE trade_updates_of(_, _)
trade_updates_of(o, data) ==
  IF data = <<>> THEN <<>>
  ELSE <<TradeUpdate(PollTradeId(Head(data)), o.client_order_id,
                     Head(data).tradeId, Head(data).amount)>>
       \o trade_updates_of(o, Tail(data))

\* _all_trade_updates_for_order: no request without a venue order id
all_trade_updates_for_order(o, data) ==
  IF o.exchange_order_id # None THEN trade_updates_of(o, data) ELSE <<>>

\* the poller applies every trade update of the order
RECURSIVE apply_trade_updates(_, _)
apply_trade_updates(o, updates) ==
  IF updates = <<>> THEN o
  ELSE apply_trade_updates(apply_trade_update(o, Head(updates)), Tail(updates))

\* ------------------------------------------------------ REST: status of an order
\* GET unfilled-orders: the venue lists the open orders of the symbol
VenueUnfilledEntry(c, v) ==
  [orderId |-> VenueOrderId(c),
   status |-> IF VenueExecuted(v) = 0 THEN "live" ELSE "partially_filled"]

\* _request_order_status: filter by the venue order id when the tracked order has
\* one, take the first entry (IndexError on an empty list), map its status
request_order_status(o, data) ==
  LET kept == IF o.exchange_order_id # None
              THEN SelectSeq(data, LAMBDA e : e.orderId = o.exchange_order_id)
              ELSE data
  IN IF kept = <<>> \/ kept[1].status \notin DOMAIN ORDER_STATE
     THEN [raised |-> TRUE, update |-> OrderUpdate(None, None, "NONE")]
     ELSE [raised |-> FALSE,
           update |-> OrderUpdate(o.client_order_id, kept[1].orderId,
                                  ORDER_STATE[kept[1].status])]

\* ------------------------------------------------ REST: trade history poll
trading_pairs == <<"BTC-USDT">>

UPDATE_ORDER_STATUS_MIN_INTERVAL == 10
LONG_POLL_INTERVAL == 120

\* a / k > b / k in true (float) division, k > 0
TickGreater(a, b, k) == a * k > b * k

\* the guard of _update_order_fills_from_trades
fills_poll_due(cur, last, anyInFlight) ==
  \/ TickGreater(cur, last, LONG_POLL_INTERVAL)
  \/ (anyInFlight /\ TickGreater(cur, last, UPDATE_ORDER_STATUS_MIN_INTERVAL))

\* The fills endpoint answers {"data": [fill, fill, ...]}, the list that
\* _all_trade_updates_for_order iterates.  Fills of orders this connector
\* never tracked come first, then those of the tracked orders.
ForeignFill(k) ==
  [tradeId |-> ForeignTradeIdTable[k], id |-> ForeignTradeIdTable[k],
   orderId |-> ForeignOrderId, amount |-> 1, qty |-> 1, idx |-> 0]

RECURSIVE ForeignFills(_)
ForeignFills(n) == IF n = 0 THEN <<>> ELSE ForeignFills(n - 1) \o <<ForeignFill(n)>>

\* iterating a dict yields its keys, iterating a list its elements
IterItems(elem) ==
  IF elem.isList
  THEN [i \in 1..Len(elem.items) |-> [isDict |-> TRUE, value |-> elem.items[i]]]
  ELSE <<[isDict |-> FALSE, value |-> "tradeId"],
         [isDict |-> FALSE, value |-> "orderId"],
         [isDict |-> FALSE, value |-> "amount"]>>

\* one element of data as the response carries it: a fill (a dict)
DataElement(fill) == [isList |-> FALSE, items |-> <<fill>>]

\* is_confirmed_new_order_filled_event: the fill is not yet among the recorded ones
is_confirmed_new_order_filled_event(fills, exchange_trade_id, trading_pair) ==
  [exchange_trade_id |-> exchange_trade_id, symbol |-> trading_pair] \notin fills

\* lines 534-587, one trade of the inner loop; st holds the orders, the
\* recorded trade fills and the OrderFilled events emitted for untracked fills
fills_poll_item(st, item, trading_pair, by_exchange_id) ==
  IF ~item.isDict THEN st
  ELSE LET trade == item.value
           exchange_order_id == trade.tradeId
       IN IF exchange_order_id \in DOMAIN by_exchange_id
          THEN LET c == by_exchange_id[exchange_order_id]
               IN [st EXCEPT !.orders[c] =
                     apply_trade_update(@, TradeUpdate(trade.id, c,
                                                       exchange_order_id, trade.qty))]
          ELSE IF is_confirmed_new_order_filled_event(st.fills, trade.id, trading_pair)
          THEN [st EXCEPT
                  !.fills = @ \cup {[exchange_trade_id |-> trade.id,
                                     symbol |-> trading_pair]},
                  !.events = Append(@, trade.id)]
          ELSE st

RECURSIVE fills_poll_items(_, _, _, _)
fills_poll_items(st, items, trading_pair, by_exchange_id) ==
  IF items = <<>> THEN st
  ELSE fills_poll_items(fills_poll_item(st, Head(items), trading_pair, by_exchange_id),
                        Tail(items), trading_pair, by_exchange_id)

\* for trades, trading_pair in zip(data, trading_pairs)
RECURSIVE fills_poll_zip(_, _, _, _)
fills_poll_zip(st, data, pairs, by_exchange_id) ==
  IF data = <<>> \/ pairs = <<>> THEN st
  ELSE fills_poll_zip(
         fills_poll_items(st, IterItems(Head(data)), Head(pairs), by_exchange_id),
         Tail(data), Tail(pairs), by_exchange_id)

\* order_by_exchange_id_map over the fillable orders
order_by_exchange_id_map(os) ==
  [x \in {os[c].exchange_order_id : c \in {d \in DOMAIN os : IsFillable(os[d])}} |->
     CHOOSE c \in DOMAIN os : IsFillable(os[c]) /\ os[c].exchange_order_id = x]

\* ------------------------------------------------------------------- state
VARIABLES
  orders,            \* _order_tracker: client order id -> InFlightOrder
  venue,             \* the exchange: client order id -> what it holds for it
  foreign_fills,     \* number of fills the venue holds for untracked orders
  current_trade_fills,   \* _current_trade_fills
  order_filled_events,   \* OrderFilled events emitted for untracked fills
  current_timestamp,     \* the clock (seconds)
  last_poll_timestamp,   \* _last_poll_timestamp
  last_trades_poll_bitget_timestamp,  \* _last_trades_poll_bitget_timestamp
  poll_pc,           \* where the polling loop is in its pass
  place_call,        \* client order id -> the _place_order call made for it
  cancel_call,       \* the last _place_cancel call
  delivered,         \* stream messages the listener has processed: <<c, idx>>
  poll_reported,     \* executions a per-order fills request has returned: <<c, idx>>
  fills_polled,      \* orders whose fills were fetched after their full execution
  polled_unmatched,  \* untracked fills a trade-history response has carried
  frame_call,        \* the last frame the listener took, and the orders before it
  account_balances,            \* _account_balances: asset -> total
  account_available_balances,  \* _account_available_balances: asset -> available
  balances_call,     \* the last _update_balances call and the tables it left
  auth_call,         \* the last signing call, made twice under two wall clocks
  trading_pair_symbol_map,     \* the installed symbol map
  symbols_call,      \* the last build of the symbol map
  call               \* the last call of an operation that keeps no state

\* the order and trade reconciliation
order_vars ==
  <<orders, venue, foreign_fills, current_trade_fills, order_filled_events,
    current_timestamp, last_poll_timestamp, last_trades_poll_bitget_timestamp,
    poll_pc, place_call, cancel_call, delivered, poll_reported, fills_polled,
    polled_unmatched>>

\* what the reconciliation steps leave alone
aux_vars ==
  <<frame_call, account_balances, account_available_balances, balances_call,
    auth_call, trading_pair_symbol_map, symbols_call, call>>

vars == <<order_vars, aux_vars>>

NoCall == [made |-> FALSE]

\* a dict with no key
EmptyTable == [a \in {} |-> 0]
\* no symbol map installed yet
NoSymbolMap == [installed |-> FALSE, mapping |-> EmptyTable]

\* no balance known, no symbol map installed, nothing called yet
InitAux ==
  /\ frame_call = NoCall
  /\ account_balances = EmptyTable
  /\ account_available_balances = EmptyTable
  /\ balances_call = NoCall
  /\ auth_call = NoCall
  /\ trading_pair_symbol_map = NoSymbolMap
  /\ symbols_call = NoCall
  /\ call = NoCall

Init ==
  /\ InitAux
  /\ orders = [c \in ClientIds |-> NoOrder]
  /\ venue = [c \in ClientIds |-> NoVenueOrder]
  /\ foreign_fills = 0
  /\ current_trade_fills = {}
  /\ order_filled_events = <<>>
  /\ current_timestamp = 1
  /\ last_poll_timestamp = 0
  /\ last_trades_poll_bitget_timestamp = 1
  /\ poll_pc = "idle"
  /\ place_call = [c \in ClientIds |-> NoCall]
  /\ cancel_call = NoCall
  /\ delivered = {}
  /\ poll_reported = {}
  /\ fills_polled = {}
  /\ polled_unmatched = {}

time_synchronizer_time == current_timestamp

\* --------------------------------------------------------------- lifecycle
\* buy / sell: the order is tracked before the request is sent
StartTracking(c, amt) ==
  /\ ~orders[c].tracked
  /\ ~venue[c].accepted
  /\ orders' = [orders EXCEPT ![c] = NewOrder(c, amt)]
  /\ UNCHANGED aux_vars
  /\ UNCHANGED <<venue, foreign_fills, current_trade_fills, order_filled_events,
                 current_timestamp, last_poll_timestamp,
                 last_trades_poll_bitget_timestamp, poll_pc, place_call,
                 cancel_call, delivered, poll_reported, fills_polled,
                 polled_unmatched>>

\* _place_order and what the caller does with its result: OPEN with the
\* returned id, or FAILED when it raised.  accepted: whether the venue took
\* the order; hasFill: the shape of the venue's "new" message.
PlaceOrderStep(c, post, accepted, hasFill) ==
  /\ orders[c].tracked /\ orders[c].current_state = "PENDING_CREATE"
  /\ post.kind = "response" => accepted
  /\ post.kind = "malformed" => ~accepted
  /\ accepted \/ hasFill
  /\ LET r == place_order(post, time_synchronizer_time)
     IN orders' = [orders EXCEPT ![c] =
                     IF r.raised
                     THEN apply_order_update(@, OrderUpdate(c, None, "FAILED"))
                     ELSE apply_order_update(@, OrderUpdate(c, r.o_id, "OPEN"))]
  /\ venue' = [venue EXCEPT ![c] =
                 IF accepted
                 THEN [accepted |-> TRUE, quantity |-> orders[c].amount,
                       log |-> <<VenueEvent("new", 0, hasFill)>>]
                 ELSE @]
  /\ UNCHANGED aux_vars
  /\ UNCHANGED <<foreign_fills, current_trade_fills, order_filled_events,
                 current_timestamp, last_poll_timestamp,
                 last_trades_poll_bitget_timestamp, poll_pc, cancel_call,
                 delivered, poll_reported, fills_polled, polled_unmatched>>

PlaceOrder(c, post, accepted, hasFill) ==
  /\ PlaceOrderStep(c, post, accepted, hasFill)
  /\ UNCHANGED place_call

\* the same step, the call kept for inspection
PlaceOrderCall(c, post, accepted, hasFill) ==
  /\ PlaceOrderStep(c, post, accepted, hasFill)
  /\ place_call' = [place_call EXCEPT ![c] =
                      [made |-> TRUE, post |-> post,
                       now |-> time_synchronizer_time,
                       result |-> place_order(post, time_synchronizer_time)]]

PlacePosts(c) ==
  {PlaceResponse(VenueOrderId(c), current_timestamp * 1000), PlaceMalformed}
    \cup {PlaceIOError(a, b) : a \in BOOLEAN, b \in BOOLEAN}

\* the venue order a cancel request with this orderId reaches, if any
CancelTargets(x) == {c \in ClientIds : VenueOpen(venue[c]) /\ VenueOrderId(c) = x}

\* _place_cancel and what the caller does with its result: CANCELED when it
\* returned True.  The venue cancels the open order the request names and
\* answers msg "success"; otherwise it cancels nothing and answers without
\* that msg.  answer "raised": the request ends in an exception instead.
CancelOrderStep(c, answer, hasFill) ==
  /\ IsInFlight(orders[c])
  /\ LET x == place_cancel_order_id(orders[c])
         hit == CancelTargets(x)
         ok == answer # "raised" /\ place_cancel_result(answer)
     IN /\ IF hit # {} THEN answer \in {"success", "raised"}
           ELSE answer \in (CancelMsgs \ {"success"}) \cup {"raised"}
        /\ hit = {} => hasFill
        /\ venue' = [d \in ClientIds |->
                       IF d \in hit
                       THEN [venue[d] EXCEPT
                               !.log = Append(@, VenueEvent("cancel", 0, hasFill))]
                       ELSE venue[d]]
        /\ orders' = [orders EXCEPT ![c] =
                        IF ok THEN apply_order_update(@, OrderUpdate(c, x, "CANCELED"))
                        ELSE @]
  /\ UNCHANGED aux_vars
  /\ UNCHANGED <<foreign_fills, current_trade_fills, order_filled_events,
                 current_timestamp, last_poll_timestamp,
                 last_trades_poll_bitget_timestamp, poll_pc, place_call,
                 delivered, poll_reported, fills_polled, polled_unmatched>>

CancelOrder(c, answer, hasFill) ==
  /\ CancelOrderStep(c, answer, hasFill)
  /\ UNCHANGED cancel_call

\* the same step, the call kept for inspection
CancelOrderCall(c, answer, hasFill) ==
  /\ CancelOrderStep(c, answer, hasFill)
  /\ cancel_call' =
       [made |-> TRUE, client_order_id |-> c,
        order |-> orders[c],
        orderId |-> place_cancel_order_id(orders[c]),
        msg |-> answer, raised |-> answer = "raised",
        result |-> answer # "raised" /\ place_cancel_result(answer)]

\* ------------------------------------------------------------------- venue
VenueExecute(c, sz) ==
  /\ VenueOpen(venue[c])
  /\ sz \in 1..(venue[c].quantity - VenueExecuted(venue[c]))
  /\ venue' = [venue EXCEPT ![c].log = Append(@, VenueEvent("fill", sz, TRUE))]
  /\ UNCHANGED aux_vars
  /\ UNCHANGED <<orders, foreign_fills, current_trade_fills, order_filled_events,
                 current_timestamp, last_poll_timestamp,
                 last_trades_poll_bitget_timestamp, poll_pc, place_call,
                 cancel_call, delivered, poll_reported, fills_polled,
                 polled_unmatched>>

VenueForeignFill ==
  /\ foreign_fills < MaxForeign
  /\ foreign_fills < Len(ForeignTradeIdTable)
  /\ foreign_fills' = foreign_fills + 1
  /\ UNCHANGED aux_vars
  /\ UNCHANGED <<orders, venue, current_trade_fills, order_filled_events,
                 current_timestamp, last_poll_timestamp,
                 last_trades_poll_bitget_timestamp, poll_pc, place_call,
                 cancel_call, delivered, poll_reported, fills_polled,
                 polled_unmatched>>

Tick ==
  /\ current_timestamp < MaxTime
  /\ current_timestamp' = current_timestamp + 1
  /\ UNCHANGED aux_vars
  /\ UNCHANGED <<orders, venue, foreign_fills, current_trade_fills,
                 order_filled_events, last_poll_timestamp,
                 last_trades_poll_bitget_timestamp, poll_pc, place_call,
                 cancel_call, delivered, poll_reported, fills_polled,
                 polled_unmatched>>

\* ------------------------------------------------------------ user stream
AvailableMsgs ==
  {WsOrderMsg(c, venue[c], i) : <<c, i>> \in
     {p \in ClientIds \X (1..(MaxAmount + 2)) : p[2] <= Len(venue[p[1]].log)}}

Frames == UNION {[1..n -> AvailableMsgs] : n \in 1..MaxFrame}

\* the listener takes one frame of the orders channel from its queue; the
\* channel may repeat, reorder or never deliver a message
UserStreamStep(payload) ==
  /\ orders' = user_stream_frame(orders, payload)
  /\ UNCHANGED aux_vars
  /\ UNCHANGED <<venue, foreign_fills, current_trade_fills, order_filled_events,
                 current_timestamp, last_poll_timestamp,
                 last_trades_poll_bitget_timestamp, poll_pc, place_call,
                 cancel_call, poll_reported, fills_polled, polled_unmatched>>

UserStreamEvent(payload) ==
  /\ UserStreamStep(payload)
  /\ UNCHANGED delivered

\* the same step, the messages the loop reached kept for inspection
UserStreamEventSeen(payload) ==
  /\ UserStreamStep(payload)
  /\ delivered' = delivered \cup
        {<<m.clOrdId, m.idx>> : m \in frame_reached(orders, payload)}

\* ----------------------------------------------------------- polling loop
TradeHistory ==
  LET tracked(c) == VenueFills(c, venue[c].log, 1)
  IN ForeignFills(foreign_fills) \o tracked("c1")

AnyInFlight == \E c \in ClientIds : IsInFlight(orders[c])

\* _status_polling_loop_fetch_updates, first part: _update_order_fills_from_trades.
\* fetched: whether the GET of the trade history succeeded; a failed one leaves
\* an exception in results[0], and `"data" in results[0]` raises on it, which
\* ends the pass.
PollFillsFromTradesStep(fetched) ==
  /\ poll_pc = "idle"
  /\ IF fills_poll_due(current_timestamp, last_poll_timestamp, AnyInFlight)
     THEN /\ last_trades_poll_bitget_timestamp' = time_synchronizer_time
          /\ IF last_poll_timestamp > 0
             THEN IF fetched
                  THEN LET data == [i \in 1..Len(TradeHistory) |->
                                      DataElement(TradeHistory[i])]
                           st == fills_poll_zip(
                                   [orders |-> orders, fills |-> current_trade_fills,
                                    events |-> order_filled_events],
                                   data, trading_pairs,
                                   order_by_exchange_id_map(orders))
                       IN /\ orders' = st.orders
                          /\ current_trade_fills' = st.fills
                          /\ order_filled_events' = st.events
                          /\ poll_pc' = "fills"
                  ELSE /\ poll_pc' = "idle"
                       /\ UNCHANGED <<orders, current_trade_fills,
                                      order_filled_events>>
             ELSE /\ fetched
                  /\ poll_pc' = "fills"
                  /\ UNCHANGED <<orders, current_trade_fills,
                                 order_filled_events>>
     ELSE /\ fetched
          /\ poll_pc' = "fills"
          /\ UNCHANGED <<orders, current_trade_fills, order_filled_events,
                         last_trades_poll_bitget_timestamp>>
  /\ UNCHANGED aux_vars
  /\ UNCHANGED <<venue, foreign_fills, current_timestamp, last_poll_timestamp,
                 place_call, cancel_call, delivered, poll_reported, fills_polled>>

PollFillsFromTrades(fetched) ==
  /\ PollFillsFromTradesStep(fetched)
  /\ UNCHANGED polled_unmatched

\* the same step, the untracked fills of the processed response kept for inspection
PollFillsFromTradesSeen(fetched) ==
  /\ PollFillsFromTradesStep(fetched)
  /\ polled_unmatched' =
       IF fetched /\ last_poll_timestamp > 0
            /\ fills_poll_due(current_timestamp, last_poll_timestamp, AnyInFlight)
       THEN polled_unmatched \cup {ForeignFill(k).tradeId : k \in 1..foreign_fills}
       ELSE polled_unmatched

\* the fills the venue returns for GET fills with orderId = x
VenueFillsOfOrder(x) ==
  IF \E c \in ClientIds : venue[c].accepted /\ VenueOrderId(c) = x
  THEN LET c == CHOOSE d \in ClientIds : venue[d].accepted /\ VenueOrderId(d) = x
       IN VenueFills(c, venue[c].log, 1)
  ELSE <<>>

\* _update_order_status, the fills of every in-flight order:
\* _all_trade_updates_for_order, each update then applied.  fetched: the
\* orders whose GET succeeded; a failed one is logged and skipped.
PollOrderFillsStep(fetched) ==
  /\ poll_pc = "fills"
  /\ fetched \subseteq {c \in ClientIds : IsInFlight(orders[c])
                                          /\ orders[c].exchange_order_id # None}
  /\ orders' = [c \in ClientIds |->
                  IF c \in fetched
                  THEN apply_trade_updates(orders[c],
                         all_trade_updates_for_order(orders[c],
                           VenueFillsOfOrder(orders[c].exchange_order_id)))
                  ELSE orders[c]]
  /\ poll_pc' = "status"
  /\ UNCHANGED aux_vars
  /\ UNCHANGED <<venue, foreign_fills, current_trade_fills, order_filled_events,
                 current_timestamp, last_poll_timestamp,
                 last_trades_poll_bitget_timestamp, place_call, cancel_call,
                 delivered, polled_unmatched>>

PollOrderFills(fetched) ==
  /\ PollOrderFillsStep(fetched)
  /\ UNCHANGED <<poll_reported, fills_polled>>

\* the same step, what the requests returned kept for inspection
PollOrderFillsSeen(fetched) ==
  /\ PollOrderFillsStep(fetched)
  /\ poll_reported' = poll_reported \cup
        UNION {{<<c, VenueFillsOfOrder(orders[c].exchange_order_id)[i].idx>> :
                  i \in 1..Len(VenueFillsOfOrder(orders[c].exchange_order_id))} :
               c \in fetched}
  /\ fills_polled' = fills_polled \cup
        {c \in fetched : venue[c].accepted
                         /\ VenueExecuted(venue[c]) = venue[c].quantity}

\* GET unfilled-orders: the open orders of the symbol
VenueUnfilled ==
  IF VenueOpen(venue["c1"]) THEN <<VenueUnfilledEntry("c1", venue["c1"])>> ELSE <<>>

\* _update_order_status, the status of every in-flight order:
\* _request_order_status, the update then applied; an exception is logged.
\* The pass ends and the loop records its time.
PollOrderStatus(fetched) ==
  /\ poll_pc = "status"
  /\ fetched \subseteq {c \in ClientIds : IsInFlight(orders[c])}
  /\ orders' = [c \in ClientIds |->
                  IF c \in fetched
                  THEN LET r == request_order_status(orders[c], VenueUnfilled)
                       IN IF r.raised THEN orders[c]
                          ELSE apply_order_update(orders[c], r.update)
                  ELSE orders[c]]
  /\ last_poll_timestamp' = current_timestamp
  /\ poll_pc' = "idle"
  /\ UNCHANGED aux_vars
  /\ UNCHANGED <<venue, foreign_fills, current_trade_fills, order_filled_events,
                 current_timestamp, last_trades_poll_bitget_timestamp, place_call,
                 cancel_call, delivered, poll_reported, fills_polled,
                 polled_unmatched>>

\* ------------------------------------------------------------ specification
Next ==
  \/ \E c \in ClientIds, amt \in 1..MaxAmount : StartTracking(c, amt)
  \/ \E c \in ClientIds : \E post \in PlacePosts(c), a \in BOOLEAN, h \in BOOLEAN :
       PlaceOrder(c, post, a, h)
  \/ \E c \in ClientIds, answer \in CancelMsgs \cup {"raised"}, h \in BOOLEAN :
       CancelOrder(c, answer, h)
  \/ \E c \in ClientIds, sz \in 1..MaxAmount : VenueExecute(c, sz)
  \/ VenueForeignFill
  \/ Tick
  \/ \E payload \in Frames : UserStreamEvent(payload)
  \/ \E fetched \in BOOLEAN : PollFillsFromTrades(fetched)
  \/ \E fetched \in SUBSET ClientIds : PollOrderFills(fetched)
  \/ \E fetched \in SUBSET ClientIds : PollOrderStatus(fetched)

Spec == Init /\ [][Next]_vars

\* the same steps, with the record of what each channel has reported
NextSeen ==
  \/ \E c \in ClientIds, amt \in 1..MaxAmount : StartTracking(c, amt)
  \/ \E c \in ClientIds : \E post \in PlacePosts(c), a \in BOOLEAN, h \in BOOLEAN :
       PlaceOrder(c, post, a, h)
  \/ \E c \in ClientIds, answer \in CancelMsgs \cup {"raised"}, h \in BOOLEAN :
       CancelOrder(c, answer, h)
  \/ \E c \in ClientIds, sz \in 1..MaxAmount : VenueExecute(c, sz)
  \/ VenueForeignFill
  \/ Tick
  \/ \E payload \in Frames : UserStreamEventSeen(payload)
  \/ \E fetched \in BOOLEAN : PollFillsFromTradesSeen(fetched)
  \/ \E fetched \in SUBSET ClientIds : PollOrderFillsSeen(fetched)
  \/ \E fetched \in SUBSET ClientIds : PollOrderStatus(fetched)

SpecSeen == Init /\ [][NextSeen]_vars

\* the order lifecycle alone, each place and cancel call kept for inspection
NextCalls ==
  \/ \E c \in ClientIds, amt \in 1..MaxAmount : StartTracking(c, amt)
  \/ \E c \in ClientIds : \E post \in PlacePosts(c), a \in BOOLEAN, h \in BOOLEAN :
       PlaceOrderCall(c, post, a, h)
  \/ \E c \in ClientIds, answer \in CancelMsgs \cup {"raised"}, h \in BOOLEAN :
       CancelOrderCall(c, answer, h)
  \/ \E c \in ClientIds, sz \in 1..MaxAmount : VenueExecute(c, sz)
  \/ Tick

SpecCalls == Init /\ [][NextCalls]_vars

\* ------------------------------------------- delivery orders of one order's updates
\* An order the venue acknowledged (OPEN, bound to its venue id) and has
\* finished with: executed completely, or cancelled after any executions.
\* Its updates are then delivered in any order, any number of times: the
\* stream message of each event, and the answer of the per-order fills
\* request as of each execution.
AckedOrder(c, amt) ==
  apply_order_update(NewOrder(c, amt), OrderUpdate(c, VenueOrderId(c), "OPEN"))

FillSizeSeqs == UNION {[1..n -> 1..MaxAmount] : n \in 0..MaxAmount}

RECURSIVE SumSeq(_)
SumSeq(q) == IF q = <<>> THEN 0 ELSE Head(q) + SumSeq(Tail(q))

FinishedLogs(amt) ==
  {<<VenueEvent("new", 0, h)>> \o [i \in 1..Len(q) |-> VenueEvent("fill", q[i], TRUE)]
     : <<h, q>> \in {p \in BOOLEAN \X FillSizeSeqs : SumSeq(p[2]) = amt}}
  \cup
  {<<VenueEvent("new", 0, h[1])>>
     \o [i \in 1..Len(q) |-> VenueEvent("fill", q[i], TRUE)]
     \o <<VenueEvent("cancel", 0, h[2])>>
     : <<h, q>> \in {p \in (BOOLEAN \X BOOLEAN) \X FillSizeSeqs : SumSeq(p[2]) < amt}}

InitPerm ==
  /\ InitAux
  /\ \E amt \in 1..MaxAmount : \E log \in FinishedLogs(amt) :
       /\ orders = [c \in ClientIds |-> AckedOrder(c, amt)]
       /\ venue = [c \in ClientIds |->
                     [accepted |-> TRUE, quantity |-> amt, log |-> log]]
  /\ foreign_fills = 0
  /\ current_trade_fills = {}
  /\ order_filled_events = <<>>
  /\ current_timestamp = 1
  /\ last_poll_timestamp = 0
  /\ last_trades_poll_bitget_timestamp = 1
  /\ poll_pc = "idle"
  /\ place_call = [c \in ClientIds |-> NoCall]
  /\ cancel_call = NoCall
  /\ delivered = {}
  /\ poll_reported = {}
  /\ fills_polled = {}
  /\ polled_unmatched = {}

\* the per-order fills request answered as of event k of the venue's log
PolledFillsUpTo(c, k) == VenueFills(c, SubSeq(venue[c].log, 1, k), 1)

PermPollFills(c, k) ==
  /\ k \in 1..Len(venue[c].log)
  /\ venue[c].log[k].kind = "fill"
  /\ IsInFlight(orders[c])
  /\ orders' = [orders EXCEPT ![c] =
                  apply_trade_updates(@,
                    all_trade_updates_for_order(@, PolledFillsUpTo(c, k)))]
  /\ poll_reported' = poll_reported \cup
        {<<c, PolledFillsUpTo(c, k)[i].idx>> : i \in 1..Len(PolledFillsUpTo(c, k))}
  /\ UNCHANGED aux_vars
  /\ UNCHANGED <<venue, foreign_fills, current_trade_fills, order_filled_events,
                 current_timestamp, last_poll_timestamp,
                 last_trades_poll_bitget_timestamp, poll_pc, place_call,
                 cancel_call, delivered, fills_polled, polled_unmatched>>

NextPerm ==
  \/ \E payload \in Frames : UserStreamEventSeen(payload)
  \/ \E c \in ClientIds, k \in 1..(MaxAmount + 2) : PermPollFills(c, k)

SpecPerm == InitPerm /\ [][NextPerm]_vars

\* the updates of order c delivered once each, in the venue's order
RECURSIVE InOrder(_, _, _)
InOrder(c, o, i) ==
  IF i > Len(venue[c].log) THEN o
  ELSE LET m == WsOrderMsg(c, venue[c], i)
           afterWs == user_stream_frame([d \in {c} |-> o], <<m>>)[c]
           afterPoll ==
             IF venue[c].log[i].kind = "fill" /\ IsInFlight(afterWs)
             THEN apply_trade_updates(afterWs,
                    all_trade_updates_for_order(afterWs, PolledFillsUpTo(c, i)))
             ELSE afterWs
       IN InOrder(c, afterPoll, i + 1)

FillEvents(c) == {i \in 1..Len(venue[c].log) : venue[c].log[i].kind = "fill"}
AllEvents(c) == 1..Len(venue[c].log)

\* ------------------------------------------------------------------ claims
\* the executed size of the events of log whose index is in S
RECURSIVE SumAt(_, _, _)
SumAt(log, S, i) ==
  IF i > Len(log) THEN 0
  ELSE (IF i \in S /\ log[i].kind = "fill" THEN log[i].sz ELSE 0)
       + SumAt(log, S, i + 1)

\* the executions of order c that a stream message or a fills request has
\* reported to the connector
ReportedFills(c) ==
  {i \in FillEvents(c) : <<c, i>> \in delivered \/ <<c, i>> \in poll_reported}
StreamedFills(c) == {i \in FillEvents(c) : <<c, i>> \in delivered}
PolledFills(c) == {i \in FillEvents(c) : <<c, i>> \in poll_reported}

\* C1: every execution of a tracked order that the stream and the polls have
\* reported, once or several times, has been added to the order's cumulative
\* filled amount exactly once.
C1_ReportedExecutionCountedOnce ==
  \A c \in ClientIds :
    orders[c].tracked =>
      orders[c].executed_amount_base = SumAt(venue[c].log, ReportedFills(c), 1)

\* C2: the cumulative filled amount of a tracked order never exceeds its
\* requested amount.
C2_FilledWithinRequested ==
  \A c \in ClientIds :
    orders[c].tracked => orders[c].executed_amount_base <= orders[c].amount

AllDelivered(c) ==
  /\ \A i \in AllEvents(c) : <<c, i>> \in delivered
  /\ \A i \in FillEvents(c) : <<c, i>> \in poll_reported

OnlyFillMessagesDelivered(c) ==
  /\ PolledFills(c) = {}
  /\ \A i \in AllEvents(c) : <<c, i>> \in delivered => i \in FillEvents(c)

C5_EveryStreamedFillApplied ==
  \A c \in ClientIds :
    (orders[c].tracked /\ OnlyFillMessagesDelivered(c)) =>
      orders[c].executed_amount_base = SumAt(venue[c].log, StreamedFills(c), 1)

\* C6: an order the venue executed completely, of which the stream delivered
\* nothing, is FILLED once the poller has fetched its fills.
C6_PollAloneFills ==
  \A c \in ClientIds :
    (c \in fills_polled /\ \A i \in AllEvents(c) : <<c, i>> \notin delivered) =>
      orders[c].current_state = "FILLED"

\* C7: a fill of an untracked order that a trade-history response has carried
\* is recorded exactly once among the current trade fills, with one
\* OrderFilled event, and no order is tracked for it.
EventCount(t) ==
  Cardinality({i \in 1..Len(order_filled_events) : order_filled_events[i] = t})

C7_UnmatchedFillRecordedOnce ==
  \A t \in polled_unmatched :
    /\ Cardinality({f \in current_trade_fills : f.exchange_trade_id = t}) = 1
    /\ EventCount(t) = 1

\* C8: a cancel call that got a response returns True exactly when the
\* response carries msg "success".
C8_CancelSuccessIffMarker ==
  (cancel_call.made /\ ~cancel_call.raised) =>
    (cancel_call.result <=> cancel_call.msg = "success")

\* a response without the marker was answered with False
C8_Witness ==
  /\ cancel_call.made /\ ~cancel_call.raised
  /\ cancel_call.msg \in {"absent", "error", "Success"}
  /\ ~cancel_call.result

\* C9: the cancel request names the order by its venue order id when it has
\* one and by its client order id otherwise, never by a null id.
C9_CancelNamesTheOrder ==
  cancel_call.made =>
    /\ cancel_call.orderId # None
    /\ cancel_call.orderId =
         IF cancel_call.order.exchange_order_id # None
         THEN cancel_call.order.exchange_order_id
         ELSE cancel_call.order.client_order_id

\* C10: place returns the venue's order id and time on success, the sentinel
\* with the synchronized local time on the overload signal, and raises on
\* every other failure.
C10_PlaceResult ==
  \A c \in ClientIds :
    place_call[c].made =>
      LET post == place_call[c].post
          r == place_call[c].result
      IN /\ post.kind = "response" =>
              (~r.raised /\ r.o_id = post.orderId
                 /\ r.transact_time * 1000 = post.requestTime)
         /\ (post.kind = "ioerror" /\ post.status503 /\ post.unknownError) =>
              (~r.raised /\ r.o_id = UNKNOWN
                 /\ r.transact_time = place_call[c].now)
         /\ (post.kind = "malformed"
               \/ (post.kind = "ioerror"
                     /\ ~(post.status503 /\ post.unknownError))) => r.raised

\* the overload signal answered with the sentinel, the order kept alive
C10_Witness ==
  \E c \in ClientIds :
    /\ place_call[c].made
    /\ place_call[c].post.kind = "ioerror"
    /\ place_call[c].result.o_id = UNKNOWN
    /\ orders[c].exchange_order_id = UNKNOWN

\* C11: a status poll that succeeds for an in-flight order bound to the
\* sentinel, while the venue holds that order open, binds the order to its
\* real venue order id.
BoundToSentinel(c) ==
  /\ IsInFlight(orders[c])
  /\ orders[c].exchange_order_id = UNKNOWN
  /\ VenueOpen(venue[c])

C11_StatusPollAttachesVenueId ==
  [][\A c \in ClientIds :
       (BoundToSentinel(c) /\ PollOrderStatus({c})) =>
         orders'[c].exchange_order_id = VenueOrderId(c)]_vars

\* once bound to the sentinel an order stays bound to it
C11_SentinelForever ==
  [][\A c \in ClientIds :
       orders[c].exchange_order_id = UNKNOWN =>
         orders'[c].exchange_order_id = UNKNOWN]_vars

\* ---------------------------------------------------------------- balances
Assets == {"BTC", "USDT"}
AssetOrder == <<"BTC", "USDT">>
\* what open orders hold of an asset: nothing, or one unit
LockedAmounts == {0, 1}

\* d[k] = v
DictSet(d, k, v) == [a \in DOMAIN d \cup {k} |-> IF a = k THEN v ELSE d[a]]
\* del d[k], k a key of d
DictDel(d, k) == [a \in DOMAIN d \ {k} |-> d[a]]

\* GET accounts: {"data": [{coin, available, locked}, ...]}, or the request fails
BalanceEntry(coin, available, locked) ==
  [coin |-> coin, available |-> available, locked |-> locked]

AccountsOk(data) == [kind |-> "ok", data |-> data]
AccountsError == [kind |-> "error", data |-> <<>>]

\* the listings of a set of assets, one entry each
RECURSIVE SnapshotsOf(_, _)
SnapshotsOf(S, i) ==
  IF i > Len(AssetOrder) THEN {<<>>}
  ELSE LET rest == SnapshotsOf(S, i + 1)
       IN IF AssetOrder[i] \in S
          THEN {<<BalanceEntry(AssetOrder[i], a, l)>> \o r :
                  a \in 0..MaxBalance, l \in LockedAmounts, r \in rest}
          ELSE rest

AccountsResponses ==
  {AccountsError} \cup
  {AccountsOk(data) : data \in UNION {SnapshotsOf(S, 1) : S \in SUBSET Assets}}

BalanceTables(total, available, raised) ==
  [total |-> total, available |-> available, raised |-> raised]

\* lines 687-701: the loop over the entries of the snapshot
RECURSIVE balance_entries(_, _)
balance_entries(t, balances) ==
  IF balances = <<>> THEN t
  ELSE LET e == Head(balances)
       IN balance_entries(
            BalanceTables(DictSet(t.total, e.coin, e.available + e.locked),
                          DictSet(t.available, e.coin, e.available), FALSE),
            Tail(balances))

\* lines 703-706: del of each asset known before and absent from the snapshot;
\* del of a key the dict does not hold raises KeyError
RECURSIVE remove_assets(_, _)
remove_assets(t, names) ==
  IF names = {} THEN t
  ELSE LET n == CHOOSE x \in names : TRUE
       IN IF n \notin DOMAIN t.available
          THEN BalanceTables(t.total, t.available, TRUE)
          ELSE IF n \notin DOMAIN t.total
          THEN BalanceTables(t.total, DictDel(t.available, n), TRUE)
          ELSE remove_assets(
                 BalanceTables(DictDel(t.total, n), DictDel(t.available, n), FALSE),
                 names \ {n})

\* the snapshot laid over the tables, nothing emptied and nothing removed
update_balances_overlay(total, available, response) ==
  IF response.kind = "error" THEN BalanceTables(total, available, TRUE)
  ELSE balance_entries(BalanceTables(total, available, FALSE), response.data)

\* _update_balances from the answer of the request on (lines 679-706): the
\* tables are emptied, filled from the snapshot, then the assets known before
\* the request and absent from the snapshot deleted; a request that failed has
\* raised before
apply_account_info(local_asset_names, total, available, response) ==
  IF response.kind = "error" THEN BalanceTables(total, available, TRUE)
  ELSE LET filled == balance_entries(BalanceTables(EmptyTable, EmptyTable, FALSE),
                                     response.data)
           remote_asset_names == {response.data[i].coin : i \in 1..Len(response.data)}
       IN remove_assets(filled, local_asset_names \ remote_asset_names)

\* _update_balances with nothing run between its request and the answer
update_balances(total, available, response) ==
  apply_account_info(DOMAIN total, total, available, response)

UpdateBalances(response) ==
  /\ LET r == update_balances(account_balances, account_available_balances, response)
     IN /\ account_balances' = r.total
        /\ account_available_balances' = r.available
        /\ balances_call' = [made |-> TRUE,
                             local_asset_names |-> DOMAIN account_balances,
                             response |-> response, raised |-> r.raised,
                             total |-> r.total, available |-> r.available]
  /\ UNCHANGED order_vars
  /\ UNCHANGED <<frame_call, auth_call, trading_pair_symbol_map, symbols_call, call>>

\* a message of the account channel: coinName (None when the key is missing),
\* available and frozen
SpotMsg(coin, available, frozen) ==
  [coinName |-> coin, available |-> available, frozen |-> frozen]

\* _process_spot_event_message with the available amount as the total (not
\* the program)
process_spot_event_message_no_frozen(total, available, spot_msg) ==
  IF spot_msg.coinName # None
  THEN [total |-> [a \in DOMAIN total \cup {spot_msg.coinName} |->
                     IF a = spot_msg.coinName THEN spot_msg.available
                     ELSE total[a]],
        available |-> [a \in DOMAIN available \cup {spot_msg.coinName} |->
                         IF a = spot_msg.coinName THEN spot_msg.available
                         ELSE available[a]],
        raised |-> FALSE]
  ELSE [total |-> total, available |-> available, raised |-> FALSE]

\* _process_spot_event_message
process_spot_event_message(total, available, spot_msg) ==
  IF spot_msg.coinName # None
  THEN BalanceTables(
         DictSet(total, spot_msg.coinName, spot_msg.available + spot_msg.frozen),
         DictSet(available, spot_msg.coinName, spot_msg.available), FALSE)
  ELSE BalanceTables(total, available, FALSE)

\* the listener takes a frame of the account channel, one message in it
SpotEvent(spot_msg) ==
  /\ LET r == process_spot_event_message(account_balances,
                                         account_available_balances, spot_msg)
     IN /\ account_balances' = r.total
        /\ account_available_balances' = r.available
  /\ UNCHANGED order_vars
  /\ UNCHANGED <<frame_call, balances_call, auth_call, trading_pair_symbol_map,
                 symbols_call, call>>

NextBalances ==
  \/ \E response \in AccountsResponses : UpdateBalances(response)
  \/ \E coin \in Assets \cup {None}, a \in 0..MaxBalance, f \in LockedAmounts :
       SpotEvent(SpotMsg(coin, a, f))

SpecBalances == Init /\ [][NextBalances]_vars

\* the tables a snapshot stands for
RECURSIVE SnapshotTotal(_)
SnapshotTotal(data) ==
  IF data = <<>> THEN EmptyTable
  ELSE DictSet(SnapshotTotal(Tail(data)), Head(data).coin,
               Head(data).available + Head(data).locked)

RECURSIVE SnapshotAvailable(_)
SnapshotAvailable(data) ==
  IF data = <<>> THEN EmptyTable
  ELSE DictSet(SnapshotAvailable(Tail(data)), Head(data).coin, Head(data).available)

\* C12: a balance refresh that got a snapshot leaves in the total and the
\* available table exactly the assets of the snapshot with its values; an asset
\* known before and absent from the snapshot is in neither table.
C12_RefreshReplacesTables ==
  (balances_call.made /\ balances_call.response.kind = "ok") =>
    /\ balances_call.total = SnapshotTotal(balances_call.response.data)
    /\ balances_call.available = SnapshotAvailable(balances_call.response.data)

\* a refresh has dropped an asset that was known before it
C12_Witness ==
  /\ balances_call.made
  /\ balances_call.response.kind = "ok"
  /\ \E a \in balances_call.local_asset_names :
       /\ a \notin {balances_call.response.data[i].coin :
                      i \in 1..Len(balances_call.response.data)}
       /\ a \notin DOMAIN balances_call.total
       /\ a \notin DOMAIN balances_call.available

\* C13: a poll pass whose trade-history request failed goes on, in the same
\* pass, to the updates of the in-flight orders.
C13_FailedFetchKeepsPass ==
  [][PollFillsFromTrades(FALSE) => poll_pc' = "fills"]_vars

\* ------------------------------------------- frames of any content
\* WS_ORDER_STATE: the numeric codes of the streaming channel
WS_ORDER_STATE ==
  [code \in {"1", "2", "3", "4", "5", "6", "7"} |->
     CASE code \in {"1", "5"} -> "OPEN"
       [] code = "2" -> "PARTIALLY_FILLED"
       [] code = "3" -> "FILLED"
       [] code = "4" -> "CANCELED"
       [] OTHER -> "FAILED"]

\* an order message of the orders channel, with or without the fill fields,
\* its status code one of either table or "init", which is in neither, its
\* client order id the one of the order or one that no order has
FrameMsgs ==
  {[clOrdId |-> c, ordId |-> IF c \in ClientIds THEN VenueOrderId(c) ELSE "o9",
    status |-> st, hasFill |-> h, fillSz |-> IF h THEN 1 ELSE 0, idx |-> 1] :
     c \in ClientIds \cup {"c9"},
     st \in DOMAIN ORDER_STATE \cup DOMAIN WS_ORDER_STATE \cup {"init"},
     h \in BOOLEAN}

\* one order, just submitted or acknowledged by the venue, and one frame
InitFrame ==
  /\ \E amt \in 1..MaxAmount :
       /\ \E o \in {NewOrder("c1", amt), AckedOrder("c1", amt)} :
            orders = [c \in ClientIds |-> o]
       /\ venue = [c \in ClientIds |->
                     [accepted |-> TRUE, quantity |-> amt,
                      log |-> <<VenueEvent("new", 0, TRUE)>>]]
  /\ foreign_fills = 0
  /\ current_trade_fills = {}
  /\ order_filled_events = <<>>
  /\ current_timestamp = 1
  /\ last_poll_timestamp = 0
  /\ last_trades_poll_bitget_timestamp = 1
  /\ poll_pc = "idle"
  /\ place_call = [c \in ClientIds |-> NoCall]
  /\ cancel_call = NoCall
  /\ delivered = {}
  /\ poll_reported = {}
  /\ fills_polled = {}
  /\ polled_unmatched = {}
  /\ InitAux

\* _user_stream_event_listener, one frame of the orders channel, the frame and
\* the orders before it kept for inspection
ListenFrame(payload) ==
  /\ ~frame_call.made
  /\ orders' = user_stream_frame(orders, payload)
  /\ frame_call' = [made |-> TRUE, before |-> orders, payload |-> payload]
  /\ UNCHANGED <<venue, foreign_fills, current_trade_fills, order_filled_events,
                 current_timestamp, last_poll_timestamp,
                 last_trades_poll_bitget_timestamp, poll_pc, place_call,
                 cancel_call, delivered, poll_reported, fills_polled,
                 polled_unmatched>>
  /\ UNCHANGED <<account_balances, account_available_balances, balances_call,
                 auth_call, trading_pair_symbol_map, symbols_call, call>>

NextFrame ==
  \E payload \in UNION {[1..n -> FrameMsgs] : n \in 1..MaxBatch} :
    ListenFrame(payload)

SpecFrame == InitFrame /\ [][NextFrame]_vars

\* every message of the frame handled on its own: what a message that fails
\* has done stays, and the next message is taken
RECURSIVE EachMessage(_, _)
EachMessage(os, payload) ==
  IF payload = <<>> THEN os
  ELSE EachMessage(process_order_msg(os, Head(payload)).orders, Tail(payload))

\* C14: a record of a frame that fails stops only itself: the records after it
\* in the frame are applied as if it had not been there.
C14_MalformedRecordSkipped ==
  frame_call.made => orders = EachMessage(frame_call.before, frame_call.payload)

\* C15: an order message whose status code is in no mapping table changes
\* nothing of the order it names.
C15_UnmappedStatusChangesNothing ==
  (/\ frame_call.made
   /\ Len(frame_call.payload) = 1
   /\ frame_call.payload[1].clOrdId = "c1"
   /\ frame_call.payload[1].status \notin DOMAIN ORDER_STATE \cup DOMAIN WS_ORDER_STATE)
    => orders = frame_call.before

\* the state a code of either table stands for
MappedState(code) ==
  IF code \in DOMAIN ORDER_STATE THEN ORDER_STATE[code] ELSE WS_ORDER_STATE[code]

\* C16: every code of the two tables stands for a state of the closed set, and
\* a complete order message carrying such a code puts the order it names, not
\* completed by the fill of that message, in that state.
C16_MappedCodeApplied ==
  /\ \A code \in DOMAIN ORDER_STATE \cup DOMAIN WS_ORDER_STATE :
       MappedState(code) \in
         {"OPEN", "PARTIALLY_FILLED", "FILLED", "CANCELED", "FAILED"}
  /\ (/\ frame_call.made
      /\ Len(frame_call.payload) = 1
      /\ frame_call.payload[1].clOrdId = "c1"
      /\ frame_call.payload[1].hasFill
      /\ frame_call.payload[1].status \in DOMAIN ORDER_STATE \cup DOMAIN WS_ORDER_STATE
      /\ frame_call.before["c1"].amount > frame_call.payload[1].fillSz)
       => orders["c1"].current_state = MappedState(frame_call.payload[1].status)

\* ------------------------------------------------------- request signing
\* the secret key the signer is constructed with
SecretKey == "s3cr3t"

\* str.upper() on the method names that occur
Upper(method) ==
  CASE method = "get" -> "GET"
    [] method = "post" -> "POST"
    [] OTHER -> method

\* urlencode(params): key=value joined with &, params a sequence of pairs
RECURSIVE urlencode(_)
urlencode(params) ==
  IF params = <<>> THEN ""
  ELSE Head(params)[1] \o "=" \o Head(params)[2] \o
       (IF Tail(params) = <<>> THEN "" ELSE "&" \o urlencode(Tail(params)))

\* str(request.data): a request without data has data None
NoData == [present |-> FALSE, text |-> ""]
Data(text) == [present |-> TRUE, text |-> text]
str_data(data) == IF data.present THEN data.text ELSE "None"

\* BitgetAuth._pre_hash without the body rule (not the program)
pre_hash_raw_body(timestamp, method, request_path, body) ==
  timestamp \o Upper(method) \o request_path \o body

\* BitgetAuth._pre_hash without the request path (not the program)
pre_hash_no_path(timestamp, method, request_path, body) ==
  timestamp \o Upper(method) \o
    (IF body \in {"None", "null"} THEN "" ELSE body)

\* BitgetAuth._pre_hash
pre_hash(timestamp, method, request_path, body) ==
  LET b == IF body \in {"None", "null"} THEN "" ELSE body
  IN  timestamp \o Upper(method) \o request_path \o b

\* BitgetAuth._sign: base64 of HMAC-SHA256, taken as injective on the pair
\* of key and message
sign(message, secret_key) == <<secret_key, message>>

\* create_signature of the module
create_signature(timestamp, method, request_path, secret_key, body) ==
  sign(timestamp \o method \o request_path \o body, secret_key)

\* str(int(time.time() * 1000)), the wall clock given in milliseconds
wall_clock_timestamp(wall_clock) == ToString(wall_clock)

\* str(int(self._time_provider.time())), the provider's time in seconds
provider_timestamp(provider_time) == ToString(provider_time)

\* BitgetAuth.rest_authenticate: the headers, and the string that was signed
rest_authenticate(request, wall_clock) ==
  LET timestamp == wall_clock_timestamp(wall_clock)
      path == IF request.method = "GET" /\ request.params # <<>>
              THEN request.throttler_limit_id \o "?" \o urlencode(request.params)
              ELSE request.throttler_limit_id
      payload == str_data(request.data)
      message == pre_hash(timestamp, request.method, path, payload)
  IN  [headers |-> [ACCESS_KEY |-> "key",
                    ACCESS_TIMESTAMP |-> timestamp,
                    ACCESS_PASSPHRASE |-> "pass",
                    ACCESS_SIGN |-> sign(message, SecretKey)],
       signed |-> message]

\* BitgetAuth.get_ws_auth_payload
get_ws_auth_payload(provider_time) ==
  LET timestamp == provider_timestamp(provider_time)
      message == pre_hash(timestamp, "GET", "/user/verify", "")
  IN  [apiKey |-> "key", passphrase |-> "pass", timestamp |-> timestamp,
       sign |-> sign(message, SecretKey), signed |-> message]

\* the requests handed to the signer
Requests ==
  [method : {"GET", "POST"},
   throttler_limit_id : {"/api/v2/spot/account/assets"},
   params : {<<>>, <<<<"symbol", "BTCUSDT">>>>,
             <<<<"symbol", "BTCUSDT">>, <<"limit", "1">>>>},
   data : {NoData, Data("null"), Data("None"), Data("{}")}]
WallClocks == {1000, 1001}

NoRun == [kind |-> "none"]
LastRun == IF auth_call.made THEN auth_call.last ELSE NoRun
PrevRun == IF auth_call.made THEN auth_call.prev ELSE NoRun

\* a run of the signer recorded, the run before it kept beside it
RecordRun(run) ==
  /\ auth_call' = [made |-> TRUE, prev |-> LastRun, last |-> run]
  /\ UNCHANGED order_vars
  /\ UNCHANGED <<frame_call, account_balances, account_available_balances,
                 balances_call, trading_pair_symbol_map, symbols_call, call>>

\* one REST request authenticated, the provider's time being the connector's
\* clock and the wall clock whatever it is
RestAuthenticate(request, wall_clock) ==
  RecordRun([kind |-> "rest", request |-> request,
             provider_time |-> current_timestamp, wall_clock |-> wall_clock,
             out |-> rest_authenticate(request, wall_clock)])

\* the login payload of the private stream
WsLogin(wall_clock) ==
  RecordRun([kind |-> "ws", provider_time |-> current_timestamp,
             wall_clock |-> wall_clock,
             out |-> get_ws_auth_payload(current_timestamp)])

NextAuth ==
  \/ Tick
  \/ \E request \in Requests, wall_clock \in WallClocks :
       RestAuthenticate(request, wall_clock)
  \/ \E wall_clock \in WallClocks : WsLogin(wall_clock)

SpecAuth == Init /\ [][NextAuth]_vars

\* the body that is signed for a request: nothing for a request without data,
\* with data null or with the literal None
ExpectedBody(data) ==
  IF ~data.present \/ data.text \in {"null", "None"} THEN "" ELSE data.text

ExpectedQuery(params) ==
  CASE params = <<>> -> ""
    [] Len(params) = 1 -> "?" \o params[1][1] \o "=" \o params[1][2]
    [] OTHER -> "?" \o params[1][1] \o "=" \o params[1][2] \o "&" \o
                params[2][1] \o "=" \o params[2][2]

\* C17: the string signed for a REST request is the millisecond timestamp, the
\* method in upper case, the path, the query after "?" exactly for a GET with
\* parameters, and the body, empty for an absent or null body; the timestamp
\* signed is the one of the ACCESS-TIMESTAMP header.
C17_CanonicalString ==
  LastRun.kind = "rest" =>
    LET r == LastRun.request
        h == LastRun.out.headers
    IN  /\ h.ACCESS_TIMESTAMP = ToString(LastRun.wall_clock)
        /\ LastRun.out.signed =
             h.ACCESS_TIMESTAMP \o r.method \o r.throttler_limit_id \o
             (IF r.method = "GET" THEN ExpectedQuery(r.params) ELSE "") \o
             ExpectedBody(r.data)
        /\ h.ACCESS_SIGN = <<SecretKey, LastRun.out.signed>>

C17_Witness ==
  /\ LastRun.kind = "rest" /\ PrevRun.kind = "rest"
  /\ LastRun.request.method = "GET" /\ Len(LastRun.request.params) = 2
  /\ ~LastRun.request.data.present
  /\ PrevRun.request.method = "POST" /\ PrevRun.request.params # <<>>
  /\ PrevRun.request.data = Data("{}")

\* C18: two runs of the signer with the same time of the provider give the
\* same timestamp and the same signature, whatever the wall clock is.
C18_TimestampFromProvider ==
  (/\ LastRun.kind \in {"rest", "ws"} /\ PrevRun.kind = LastRun.kind
   /\ LastRun.provider_time = PrevRun.provider_time
   /\ LastRun.kind = "rest" => LastRun.request = PrevRun.request)
    => LastRun.out = PrevRun.out

\* ------------------------------------------- the signing functions alone
SignInputs ==
  [timestamp : {"1700000000000", "1700000000001"},
   method : {"GET", "get", "POST"},
   request_path : {"/api/spot/v1/account", "/api/spot/v1/orders"},
   body : {"", "None", "null", "{}"},
   secret_key : {"s3cr3t", "0ther"}]

\* _sign(_pre_hash(timestamp, method, request_path, body), secret_key)
SignCall(in) ==
  RecordRun([kind |-> "sign", in |-> in,
             signature |-> sign(pre_hash(in.timestamp, in.method,
                                         in.request_path, in.body),
                                in.secret_key)])

\* create_signature(timestamp, method, request_path, secret_key, body)
CreateSignatureCall(in) ==
  RecordRun([kind |-> "create", in |-> in,
             signature |-> create_signature(in.timestamp, in.method,
                                            in.request_path, in.secret_key,
                                            in.body)])

NextSign ==
  \/ \E in \in SignInputs : SignCall(in)
  \/ \E in \in SignInputs : CreateSignatureCall(in)

SpecSign == Init /\ [][NextSign]_vars

InputNames == {"timestamp", "method", "request_path", "body", "secret_key"}
Differing(a, b) == {f \in InputNames : a[f] # b[f]}

\* the inputs as the signer of the class reads them: the method in upper case,
\* the bodies None and null empty
AsRead(in) ==
  [in EXCEPT !.method = Upper(in.method),
             !.body = IF in.body \in {"None", "null"} THEN "" ELSE in.body]

SameFunction == LastRun.kind \in {"sign", "create"} /\ PrevRun.kind = LastRun.kind

\* C19 as stated: two calls of a signing function whose inputs differ in
\* exactly one of timestamp, method, path, body, secret give different
\* signatures.
C19_OneInputChanged ==
  (SameFunction /\ Cardinality(Differing(LastRun.in, PrevRun.in)) = 1)
    => LastRun.signature # PrevRun.signature

\* C19: a signing function gives the same signature for the same inputs, and
\* different signatures for inputs that differ in exactly one of timestamp,
\* method, path, body, secret, the method taken in upper case and the bodies
\* None and null taken as empty where the signer of the class is the function.
C19_SignatureInjective ==
  SameFunction =>
    LET a == IF LastRun.kind = "sign" THEN AsRead(LastRun.in) ELSE LastRun.in
        b == IF PrevRun.kind = "sign" THEN AsRead(PrevRun.in) ELSE PrevRun.in
    IN  /\ LastRun.in = PrevRun.in => LastRun.signature = PrevRun.signature
        /\ Cardinality(Differing(a, b)) = 1
             => LastRun.signature # PrevRun.signature

C19_Witness ==
  /\ LastRun.kind = "sign" /\ PrevRun.kind = "sign"
  /\ Differing(LastRun.in, PrevRun.in) = {"request_path"}
  /\ LastRun.in.body = "null" /\ LastRun.in.method = "get"

\* ------------------------------------------------------------ symbol map
\* an instrument of the listing
SymbolData(symbol, baseCoin, quoteCoin, status) ==
  [symbol |-> symbol, baseCoin |-> baseCoin, quoteCoin |-> quoteCoin,
   status |-> status]

\* the answer to the instruments request: {"data": [...]}, or one without data
ExchangeInfos ==
  LET Instruments ==
        {SymbolData(symbol, baseCoin, "USDT", status) :
           symbol \in {"BTCUSDT", "BTCUSDT_SPBL"}, baseCoin \in {"BTC", "ETH"},
           status \in {"online", "offline"}}
  IN  {[has_data |-> FALSE, data |-> <<>>]} \cup
      {[has_data |-> TRUE, data |-> d] :
         d \in UNION {[1..n -> Instruments] : n \in 0..MaxListing}}

\* bitget_utils.is_exchange_information_valid: the instrument is active
is_exchange_information_valid(symbol_data) == symbol_data.status = "online"

\* combine_to_hb_trading_pair
combine_to_hb_trading_pair(base, quote) == base \o "-" \o quote

\* bidict()
EmptyBidict == [k \in {} |-> ""]

\* d[key] = val of a dict, any value under any key (not the program)
bidict_put_any(mapping, key, val) ==
  [raised |-> FALSE, mapping |-> DictSet(mapping, key, val)]

\* mapping[key] = val of a bidict: a value held under another key is refused,
\* a key held already is given the new value
bidict_put(mapping, key, val) ==
  IF \E k \in DOMAIN mapping : k # key /\ mapping[k] = val
  THEN [raised |-> TRUE, mapping |-> mapping]
  ELSE [raised |-> FALSE, mapping |-> DictSet(mapping, key, val)]

\* the loop of _initialize_trading_pair_symbols_from_exchange_info
RECURSIVE build_mapping(_, _)
build_mapping(mapping, listing) ==
  IF listing = <<>> THEN [raised |-> FALSE, mapping |-> mapping]
  ELSE LET symbol_data == Head(listing)
           r == bidict_put(mapping, symbol_data.symbol,
                           combine_to_hb_trading_pair(symbol_data.baseCoin,
                                                      symbol_data.quoteCoin))
       IN  IF r.raised THEN r ELSE build_mapping(r.mapping, Tail(listing))

\* _initialize_trading_pair_symbols_from_exchange_info up to the install
initialize_trading_pair_symbols(exchange_info) ==
  IF ~exchange_info.has_data THEN [raised |-> TRUE, mapping |-> EmptyBidict]
  ELSE build_mapping(EmptyBidict,
                     SelectSeq(exchange_info.data, is_exchange_information_valid))

\* _set_trading_pair_symbol_map: the map built replaces the one installed
set_trading_pair_symbol_map(mapping) ==
  [installed |-> TRUE, mapping |-> mapping]

\* _initialize_trading_pair_symbols_from_exchange_info, the call kept
InitializeSymbols(exchange_info) ==
  LET r == initialize_trading_pair_symbols(exchange_info)
  IN  /\ trading_pair_symbol_map' =
           IF r.raised THEN trading_pair_symbol_map
           ELSE set_trading_pair_symbol_map(r.mapping)
      /\ symbols_call' = [made |-> TRUE, before |-> trading_pair_symbol_map,
                          exchange_info |-> exchange_info, raised |-> r.raised]
      /\ UNCHANGED order_vars
      /\ UNCHANGED <<frame_call, account_balances, account_available_balances,
                     balances_call, auth_call, call>>

NextSymbols == \E exchange_info \in ExchangeInfos : InitializeSymbols(exchange_info)

SpecSymbols == Init /\ [][NextSymbols]_vars

\* the active instruments of a listing
ValidInstruments(exchange_info) ==
  {exchange_info.data[i] : i \in {j \in 1..Len(exchange_info.data) :
                                    exchange_info.data[j].status = "online"}}

OneToOne(mapping) ==
  \A s1, s2 \in DOMAIN mapping : mapping[s1] = mapping[s2] => s1 = s2

\* C20: the symbol map installed is one-to-one; after a build that failed it
\* is the map of before, and after a build that succeeded it holds the
\* symbols of the active instruments of the listing, all of them and no
\* other, each with the pair of such an instrument.
C20_SymbolMapBuilt ==
  /\ OneToOne(trading_pair_symbol_map.mapping)
  /\ symbols_call.made =>
       IF symbols_call.raised
       THEN trading_pair_symbol_map = symbols_call.before
       ELSE LET valid == ValidInstruments(symbols_call.exchange_info)
                installed == trading_pair_symbol_map.mapping
            IN  /\ trading_pair_symbol_map.installed
                /\ DOMAIN installed = {i.symbol : i \in valid}
                /\ \A s \in DOMAIN installed :
                     \E i \in valid :
                       /\ i.symbol = s
                       /\ installed[s] = i.baseCoin \o "-" \o i.quoteCoin

C20_Witness ==
  /\ symbols_call.made /\ symbols_call.raised
  /\ symbols_call.exchange_info.has_data
  /\ symbols_call.before.installed
  /\ DOMAIN symbols_call.before.mapping = {"BTCUSDT", "BTCUSDT_SPBL"}
  /\ trading_pair_symbol_map = symbols_call.before

\* ------------------------------------------- the symbol of a request
\* exchange_symbol_associated_to_pair: the symbol the installed map holds for
\* the pair, an error when it holds none
exchange_symbol_associated_to_pair(symbol_map, trading_pair) ==
  LET found == {symbol \in DOMAIN symbol_map.mapping :
                  symbol_map.mapping[symbol] = trading_pair}
  IN  IF found = {} THEN [raised |-> TRUE, symbol |-> None]
      ELSE [raised |-> FALSE, symbol |-> CHOOSE symbol \in found : TRUE]

\* format_symbol: the symbol without "_SPBL"
format_symbol(symbol) ==
  IF symbol = "BTCUSDT_SPBL" THEN "BTCUSDT" ELSE symbol

\* trading_pair.replace("-", "")
without_dash(trading_pair) ==
  CASE trading_pair = "BTC-USDT" -> "BTCUSDT"
    [] trading_pair = "ETH-USDT" -> "ETHUSDT"
    [] trading_pair = "ETH-BTC" -> "ETHBTC"
    [] OTHER -> trading_pair

\* the "symbol" parameter of the request an operation sends for a pair:
\* _place_order and _place_cancel look it up, _all_trade_updates_for_order and
\* _request_order_status look it up and format it,
\* _update_order_fills_from_trades and _get_last_traded_price derive it from
\* the pair
request_symbol(op, symbol_map, trading_pair) ==
  LET r == exchange_symbol_associated_to_pair(symbol_map, trading_pair)
  IN  CASE op \in {"place", "cancel"} -> r
        [] op \in {"order_fills", "order_status"} ->
             IF r.raised THEN r
             ELSE [raised |-> FALSE, symbol |-> format_symbol(r.symbol)]
        [] op = "trades_poll" ->
             [raised |-> FALSE, symbol |-> format_symbol(without_dash(trading_pair))]
        [] op = "last_price" ->
             [raised |-> FALSE, symbol |-> without_dash(trading_pair)]

\* an operation builds its request for a pair under the installed map
RequestSymbol(op, trading_pair) ==
  /\ call' = [made |-> TRUE, kind |-> "symbol", op |-> op,
              trading_pair |-> trading_pair,
              symbol_map |-> trading_pair_symbol_map,
              out |-> request_symbol(op, trading_pair_symbol_map, trading_pair)]
  /\ UNCHANGED order_vars
  /\ UNCHANGED <<frame_call, account_balances, account_available_balances,
                 balances_call, auth_call, trading_pair_symbol_map,
                 symbols_call>>

NextLookup ==
  \/ \E exchange_info \in {e \in ExchangeInfos : Len(e.data) <= 1} :
       InitializeSymbols(exchange_info)
  \/ \E op \in {"place", "cancel", "order_fills", "order_status", "trades_poll",
                "last_price"},
        trading_pair \in {"BTC-USDT", "ETH-USDT"} :
       RequestSymbol(op, trading_pair)

SpecLookup == Init /\ [][NextLookup]_vars

\* C21: an operation that needs the symbol of a pair the installed map does
\* not hold fails; it never goes on with a symbol.
C21_AbsentPairFails ==
  (/\ call.made
   /\ \A symbol \in DOMAIN call.symbol_map.mapping :
        call.symbol_map.mapping[symbol] # call.trading_pair)
    => call.out.raised

\* ------------------------------------------- the parameters of place
\* a Decimal: a number, or s_decimal_NaN
Price(value) == [is_nan |-> FALSE, value |-> value]
s_decimal_NaN == [is_nan |-> TRUE, value |-> 0]

\* f"{d:f}"
decimal_str(d) == IF d.is_nan THEN "NaN" ELSE ToString(d.value)

\* the orders handed to _place_order, and the price the order book gives for
\* the amount (get_price_for_volume(...).result_price)
PlaceInputs ==
  [order_id : {"c1", "c2"}, symbol : {"BTCUSDT"}, amount : 1..MaxAmount,
   trade_type : {"BUY", "SELL"},
   order_type : {"LIMIT", "LIMIT_MAKER", "MARKET"},
   price : {s_decimal_NaN} \cup {Price(v) : v \in 1..MaxAmount},
   result_price : 1..MaxAmount]

\* _place_order with the quantity of a market buy left in (not the program)
place_api_params_keep_quantity(in) ==
  LET is_limit_type == in.order_type \in {"LIMIT", "LIMIT_MAKER"}
      base == [k \in {"symbol", "side", "quantity", "force", "orderType",
                      "type", "clientOid"} |->
                 CASE k = "symbol" -> in.symbol
                   [] k = "side" -> IF in.trade_type = "BUY" THEN "buy" ELSE "sell"
                   [] k = "quantity" -> decimal_str(Price(in.amount))
                   [] k = "force" -> "normal"
                   [] k = "orderType" -> IF is_limit_type THEN "limit" ELSE "market"
                   [] k = "type" -> in.order_type
                   [] k = "clientOid" -> in.order_id]
  IN  IF is_limit_type THEN DictSet(base, "price", decimal_str(in.price))
      ELSE base

\* _place_order, the api_params it builds
place_api_params(in) ==
  LET is_limit_type == in.order_type \in {"LIMIT", "LIMIT_MAKER"}
      base == [k \in {"symbol", "side", "quantity", "force", "orderType",
                      "type", "clientOid"} |->
                 CASE k = "symbol" -> in.symbol
                   [] k = "side" -> IF in.trade_type = "BUY" THEN "buy" ELSE "sell"
                   [] k = "quantity" -> decimal_str(Price(in.amount))
                   [] k = "force" -> "normal"
                   [] k = "orderType" -> IF is_limit_type THEN "limit" ELSE "market"
                   [] k = "type" -> in.order_type
                   [] k = "clientOid" -> in.order_id]
      priced == IF is_limit_type
                THEN DictSet(base, "price", decimal_str(in.price))
                ELSE IF in.trade_type = "BUY"
                THEN LET price == IF in.price.is_nan THEN in.result_price
                                  ELSE in.price.value
                     IN  DictSet(DictDel(base, "quantity"), "quoteOrderQty",
                                 decimal_str(Price(price * in.amount)))
                ELSE base
  IN  IF in.order_type = "LIMIT" THEN DictSet(priced, "timeInForce", "GTC")
      ELSE priced

\* _place_order up to the request, the parameters kept
PlaceParams(in) ==
  /\ call' = [made |-> TRUE, kind |-> "place_params", in |-> in,
              out |-> place_api_params(in)]
  /\ UNCHANGED order_vars
  /\ UNCHANGED <<frame_call, account_balances, account_available_balances,
                 balances_call, auth_call, trading_pair_symbol_map,
                 symbols_call>>

NextParams == \E in \in PlaceInputs : PlaceParams(in)

SpecParams == Init /\ [][NextParams]_vars

\* C22: every place request carries the symbol, the side and the client order
\* id; a limit-type order carries quantity and price, a market sell quantity
\* and no price, a market buy no quantity and the quote notional price times
\* amount, the price being the one of the order book when none is given.
C22_PlaceParameters ==
  call.made =>
    LET in == call.in
        p == call.out
        keys == DOMAIN p
    IN  /\ {"symbol", "side", "clientOid"} \subseteq keys
        /\ p["symbol"] = in.symbol
        /\ p["side"] = (IF in.trade_type = "BUY" THEN "buy" ELSE "sell")
        /\ p["clientOid"] = in.order_id
        /\ in.order_type \in {"LIMIT", "LIMIT_MAKER"} =>
             /\ {"quantity", "price"} \subseteq keys
             /\ "quoteOrderQty" \notin keys
             /\ p["quantity"] = ToString(in.amount)
             /\ ~in.price.is_nan => p["price"] = ToString(in.price.value)
        /\ (in.order_type = "MARKET" /\ in.trade_type = "SELL") =>
             /\ "quantity" \in keys /\ p["quantity"] = ToString(in.amount)
             /\ "price" \notin keys /\ "quoteOrderQty" \notin keys
        /\ (in.order_type = "MARKET" /\ in.trade_type = "BUY") =>
             /\ "quantity" \notin keys /\ "price" \notin keys
             /\ "quoteOrderQty" \in keys
             /\ p["quoteOrderQty"] =
                  ToString((IF in.price.is_nan THEN in.result_price
                            ELSE in.price.value) * in.amount)

C22_Witness ==
  /\ call.made
  /\ call.in.order_type = "MARKET" /\ call.in.trade_type = "BUY"
  /\ call.in.price.is_nan /\ call.in.result_price = 2 /\ call.in.amount = 2
  /\ call.out["quoteOrderQty"] = "4"

\* C23: an order message with a status code of the tables and a client order
\* id that no tracked order has changes nothing, and the message after it in
\* the frame is handled as if it were alone.
C23_UnknownIdNoOp ==
  (/\ frame_call.made
   /\ Len(frame_call.payload) = 2
   /\ frame_call.payload[1].clOrdId \notin ClientIds
   /\ frame_call.payload[1].status \in DOMAIN ORDER_STATE \cup DOMAIN WS_ORDER_STATE)
    => orders = user_stream_frame(frame_call.before, <<frame_call.payload[2]>>)

\* the same for the status codes that the handler of the stream knows
C23_KnownCodeUnknownIdNoOp ==
  (/\ frame_call.made
   /\ Len(frame_call.payload) = 2
   /\ frame_call.payload[1].clOrdId \notin ClientIds
   /\ frame_call.payload[1].status \in DOMAIN ORDER_STATE)
    => orders = user_stream_frame(frame_call.before, <<frame_call.payload[2]>>)

\* the tick from last to cur crosses a boundary of the interval k
CrossesBoundary(cur, last, k) == cur \div k > last \div k

\* C24: the trade-history request is sent only in a tick that crosses a
\* boundary of the long interval or, with an order in flight, of the short
\* interval.
C24_FetchOnlyAtBoundary ==
  [][\A fetched \in BOOLEAN :
       (/\ PollFillsFromTrades(fetched)
        /\ last_poll_timestamp > 0
        /\ fills_poll_due(current_timestamp, last_poll_timestamp, AnyInFlight))
         => \/ CrossesBoundary(current_timestamp, last_poll_timestamp,
                               LONG_POLL_INTERVAL)
            \/ /\ AnyInFlight
               /\ CrossesBoundary(current_timestamp, last_poll_timestamp,
                                  UPDATE_ORDER_STATUS_MIN_INTERVAL)]_vars

\* ------------------------------------------------------- trading rules
\* an instrument of the rules listing; broken names the field that is missing
\* or is no number, None when every field parses
RuleListings ==
  LET Rules == [symbol : {"BTCUSDT", "BTCUSDT_SPBL"},
                status : {"online", "offline"},
                minTradeAmount : {1}, priceScale : {2}, quantityScale : {4},
                minTradeUSDT : {5},
                broken : {None, "minTradeAmount", "priceScale"}]
  IN  UNION {[1..n -> Rules] : n \in 0..MaxListing}

\* trading_pair_associated_to_exchange_symbol: the pair the installed map
\* holds for the symbol, an error when it holds none
trading_pair_associated_to_exchange_symbol(symbol_map, symbol) ==
  IF symbol \in DOMAIN symbol_map.mapping
  THEN [raised |-> FALSE, trading_pair |-> symbol_map.mapping[symbol]]
  ELSE [raised |-> TRUE, trading_pair |-> None]

\* the body of the try of _format_trading_rules: Decimal("1e-n") is kept as
\* the pair of its digit and its exponent
parse_trading_rule(symbol_map, rule) ==
  LET pair == trading_pair_associated_to_exchange_symbol(symbol_map, rule.symbol)
  IN  IF pair.raised \/ rule.broken # None
      THEN [raised |-> TRUE, rule |-> None]
      ELSE [raised |-> FALSE,
            rule |-> [trading_pair |-> pair.trading_pair,
                      min_order_size |-> rule.minTradeAmount,
                      min_price_increment |-> <<1, 0 - rule.priceScale>>,
                      min_base_amount_increment |-> <<1, 0 - rule.quantityScale>>,
                      min_notional_size |-> rule.minTradeUSDT]]

\* _format_trading_rules with the try around the loop (not the program)
RECURSIVE format_trading_rules_one_try(_, _)
format_trading_rules_one_try(symbol_map, listing) ==
  IF listing = <<>> THEN <<>>
  ELSE LET r == parse_trading_rule(symbol_map, Head(listing))
       IN  IF ~is_exchange_information_valid(Head(listing))
           THEN format_trading_rules_one_try(symbol_map, Tail(listing))
           ELSE IF r.raised THEN <<>>
           ELSE <<r.rule>> \o format_trading_rules_one_try(symbol_map, Tail(listing))

\* _format_trading_rules
RECURSIVE format_trading_rules(_, _)
format_trading_rules(symbol_map, listing) ==
  IF listing = <<>> THEN <<>>
  ELSE LET r == parse_trading_rule(symbol_map, Head(listing))
           rest == format_trading_rules(symbol_map, Tail(listing))
       IN  IF ~is_exchange_information_valid(Head(listing)) \/ r.raised
           THEN rest
           ELSE <<r.rule>> \o rest

\* _format_trading_rules called once, the listing and the rules kept
FormatTradingRules(listing) ==
  /\ ~call.made
  /\ call' = [made |-> TRUE, kind |-> "rules", listing |-> listing,
              symbol_map |-> trading_pair_symbol_map,
              out |-> format_trading_rules(trading_pair_symbol_map, listing)]
  /\ UNCHANGED order_vars
  /\ UNCHANGED <<frame_call, account_balances, account_available_balances,
                 balances_call, auth_call, trading_pair_symbol_map,
                 symbols_call>>

NextRules ==
  \/ /\ ~call.made
     /\ \E exchange_info \in {e \in ExchangeInfos : Len(e.data) <= 1} :
          InitializeSymbols(exchange_info)
  \/ \E listing \in RuleListings : FormatTradingRules(listing)

SpecRules == Init /\ [][NextRules]_vars

\* the instruments of a listing that are active and parse under the map
ParsedInstruments(symbol_map, listing) ==
  LET Parses(rule) == /\ rule.status = "online"
                      /\ rule.broken = None
                      /\ rule.symbol \in DOMAIN symbol_map.mapping
  IN  SelectSeq(listing, Parses)

\* C25: the rules returned are, in the order of the listing, one for each
\* instrument that is active and parses, with the minimum size, the increments
\* 10^(-priceScale) and 10^(-quantityScale) and the minimum notional of that
\* instrument; an instrument that fails is left out and nothing else.
C25_OneRulePerParsedInstrument ==
  call.made =>
    LET good == ParsedInstruments(call.symbol_map, call.listing)
    IN  /\ Len(call.out) = Len(good)
        /\ \A i \in 1..Len(good) :
             /\ call.out[i].trading_pair = call.symbol_map.mapping[good[i].symbol]
             /\ call.out[i].min_order_size = good[i].minTradeAmount
             /\ call.out[i].min_price_increment = <<1, 0 - good[i].priceScale>>
             /\ call.out[i].min_base_amount_increment =
                  <<1, 0 - good[i].quantityScale>>
             /\ call.out[i].min_notional_size = good[i].minTradeUSDT

C25_Witness ==
  /\ call.made
  /\ Len(call.listing) = 2
  /\ call.listing[1].status = "online" /\ call.listing[1].broken = "priceScale"
  /\ call.listing[1].symbol \in DOMAIN call.symbol_map.mapping
  /\ Len(call.out) = 1
  /\ call.out[1].trading_pair = call.symbol_map.mapping[call.listing[2].symbol]

\* ------------------------------------------------- classes of venue errors
\* fragment in str(exception): the text of a venue error holds its code, its
\* message, and the runs of digits of whatever else it prints (request time,
\* order ids)
Contains(exception, fragment) ==
  \/ fragment = exception.code
  \/ fragment = exception.msg
  \/ fragment \in exception.digits

\* _is_request_exception_related_to_time_synchronizer
is_request_exception_related_to_time_synchronizer(request_exception) ==
  /\ Contains(request_exception, "40007")
  /\ Contains(request_exception, "Timestamp expired")

\* _is_order_not_found_during_status_update_error
is_order_not_found_during_status_update_error(status_update_exception) ==
  /\ Contains(status_update_exception, "40009")
  /\ Contains(status_update_exception, "Order not found")

\* _is_order_not_found_during_cancelation_error
is_order_not_found_during_cancelation_error(cancelation_exception) ==
  /\ Contains(cancelation_exception, "40009")
  /\ Contains(cancelation_exception, "Unknown order")

\* an error of the venue raised by the request named, the answers of the
\* three tests to it kept
ClassifyError(test, exception) ==
  /\ call' = [made |-> TRUE, kind |-> "error", test |-> test,
              exception |-> exception,
              time_synchronizer |->
                is_request_exception_related_to_time_synchronizer(exception),
              status_update |->
                is_order_not_found_during_status_update_error(exception),
              cancelation |->
                is_order_not_found_during_cancelation_error(exception)]
  /\ UNCHANGED order_vars
  /\ UNCHANGED <<frame_call, account_balances, account_available_balances,
                 balances_call, auth_call, trading_pair_symbol_map,
                 symbols_call>>

NextErrors ==
  \E test \in {"time_synchronizer", "status_update", "cancelation"},
     exception \in [code : {"40009", "40007", "40005", "43001"},
                    msg : {"Order not found", "Unknown order",
                           "Timestamp expired", "Unknown error"},
                    digits : SUBSET {"40009", "40007"}] :
    ClassifyError(test, exception)

SpecErrors == Init /\ [][NextErrors]_vars

\* C26: an error with the order-not-found code is an order-not-found error
\* for the status update and for the cancel, one with the timestamp code is a
\* timestamp error, no error is both, and an error with another code is
\* neither.
C26_ErrorClasses ==
  call.made =>
    LET e == call.exception
        not_found == call.status_update \/ call.cancelation
    IN  /\ e.code = "40009" => call.status_update /\ call.cancelation
        /\ e.code = "40007" => call.time_synchronizer
        /\ ~(not_found /\ call.time_synchronizer)
        /\ e.code # "40009" => ~not_found
        /\ e.code # "40007" => ~call.time_synchronizer

\* the part of it that needs no reading of the text: an error with the code
\* and the message of the test is of the class of the test
C26_CodeAndMessageClassified ==
  call.made =>
    LET e == call.exception
    IN  /\ (e.code = "40009" /\ e.msg = "Order not found") => call.status_update
        /\ (e.code = "40009" /\ e.msg = "Unknown order") => call.cancelation
        /\ (e.code = "40007" /\ e.msg = "Timestamp expired")
             => call.time_synchronizer

\* the wallet messages of the account channel
SpotMsgs ==
  {SpotMsg(coin, a, f) :
     coin \in Assets \cup {None}, a \in 0..MaxBalance, f \in LockedAmounts}

\* C27: the total and the available table hold the same assets; a wallet
\* message for an asset leaves it with the available amount reported and the
\* total of that and the frozen amount reported, and every other asset as it
\* was; any other change of the tables leaves them as the snapshot of the
\* last refresh, total = available + locked for each of its assets.
C27_TotalIsAvailablePlusLocked ==
  /\ [](DOMAIN account_balances = DOMAIN account_available_balances)
  /\ [][/\ \A spot_msg \in SpotMsgs :
             SpotEvent(spot_msg) =>
               IF spot_msg.coinName = None
               THEN UNCHANGED <<account_balances, account_available_balances>>
               ELSE /\ account_balances' =
                         DictSet(account_balances, spot_msg.coinName,
                                 spot_msg.available + spot_msg.frozen)
                    /\ account_available_balances' =
                         DictSet(account_available_balances, spot_msg.coinName,
                                 spot_msg.available)
        /\ (\A spot_msg \in SpotMsgs : ~SpotEvent(spot_msg)) =>
             \/ UNCHANGED <<account_balances, account_available_balances>>
             \/ /\ balances_call'.made /\ balances_call'.response.kind = "ok"
                /\ account_balances' = SnapshotTotal(balances_call'.response.data)
                /\ account_available_balances' =
                     SnapshotAvailable(balances_call'.response.data)]_vars

\* a wallet message with a frozen amount has come after a refresh
C27_Witness ==
  /\ balances_call.made /\ balances_call.response.kind = "ok"
  /\ DOMAIN balances_call.total = Assets
  /\ \E a \in Assets :
       /\ account_balances[a] = account_available_balances[a] + 1
       /\ account_balances[a] # balances_call.total[a]

\* ------------------------------------- the refresh and the stream as tasks
\* _update_balances up to its request with the tables emptied there (not the
\* program)
begin_update_balances_emptied(total, available) ==
  [local_asset_names |-> DOMAIN total, total |-> EmptyTable,
   available |-> EmptyTable]

\* _update_balances up to its request (lines 671-677): the names of the
\* assets known are read, the tables left as they are
begin_update_balances(total, available) ==
  [local_asset_names |-> DOMAIN total, total |-> total, available |-> available]

\* the refresh sends its request; other tasks run until the answer is there
BeginUpdateBalances ==
  /\ ~call.made
  /\ LET b == begin_update_balances(account_balances, account_available_balances)
     IN  /\ call' = [made |-> TRUE, kind |-> "refresh",
                     local_asset_names |-> b.local_asset_names]
         /\ account_balances' = b.total
         /\ account_available_balances' = b.available
  /\ UNCHANGED order_vars
  /\ UNCHANGED <<frame_call, balances_call, auth_call, trading_pair_symbol_map,
                 symbols_call>>

\* the answer is there: the rest of _update_balances runs in one piece
FinishUpdateBalances(response) ==
  /\ call.made
  /\ LET r == apply_account_info(call.local_asset_names, account_balances,
                                 account_available_balances, response)
     IN  /\ account_balances' = r.total
         /\ account_available_balances' = r.available
         /\ balances_call' = [made |-> TRUE,
                              local_asset_names |-> call.local_asset_names,
                              response |-> response, raised |-> r.raised,
                              total |-> r.total, available |-> r.available]
  /\ call' = NoCall
  /\ UNCHANGED order_vars
  /\ UNCHANGED <<frame_call, auth_call, trading_pair_symbol_map, symbols_call>>

NextTasks ==
  \/ BeginUpdateBalances
  \/ \E response \in AccountsResponses : FinishUpdateBalances(response)
  \/ \E spot_msg \in SpotMsgs : SpotEvent(spot_msg)

SpecTasks == Init /\ [][NextTasks]_vars

RequestOrderStatus(c, data) ==
  /\ ~call.made
  /\ IsInFlight(orders[c])
  /\ LET r == request_order_status(orders[c], data)
     IN  /\ orders' = [orders EXCEPT ![c] =
                         IF r.raised THEN @ ELSE apply_order_update(@, r.update)]
         /\ call' = [made |-> TRUE, kind |-> "status", data |-> data,
                     before |-> orders[c], out |-> r]
  /\ UNCHANGED <<venue, foreign_fills, current_trade_fills, order_filled_events,
                 current_timestamp, last_poll_timestamp,
                 last_trades_poll_bitget_timestamp, poll_pc, place_call,
                 cancel_call, delivered, poll_reported, fills_polled,
                 polled_unmatched>>
  /\ UNCHANGED <<frame_call, account_balances, account_available_balances,
                 balances_call, auth_call, trading_pair_symbol_map,
                 symbols_call>>

NextStatus ==
  \E c \in ClientIds,
     data \in UNION {[1..n -> [orderId : {VenueOrderId("c1"), ForeignOrderId},
                               status : {"live", "partially_filled", "filled"}]] :
                       n \in 0..MaxListing} :
    RequestOrderStatus(c, data)

SpecStatus == InitFrame /\ [][NextStatus]_vars

\* C29: the update a status request gives for a tracked order carries the
\* venue id of that order, and the order is bound to no other id after it.
C29_StatusOfTheSameOrder ==
  (call.made /\ ~call.out.raised) =>
    /\ call.out.update.exchange_order_id =
         VenueOrderId(call.out.update.client_order_id)
    /\ \A c \in ClientIds : orders[c].exchange_order_id \in {None, VenueOrderId(c)}

\* the same for an order that has its venue id when the request is made
C29_BoundOrderKeepsItsId ==
  (call.made /\ ~call.out.raised /\ call.before.exchange_order_id # None) =>
    /\ call.out.update.exchange_order_id = call.before.exchange_order_id
    /\ \A c \in ClientIds : orders[c].exchange_order_id = VenueOrderId(c)

\* ------------------------------- the trade-history poll, request in flight
\* _update_order_fills_from_trades up to `await safe_gather(*tasks)`: the
\* guard, the poll time, the snapshot of the fillable orders by exchange id,
\* the request made when a pass has completed before.  Without the guard
\* nothing is awaited and the pass goes on.
BeginPollFillsFromTrades ==
  /\ poll_pc = "idle"
  /\ IF fills_poll_due(current_timestamp, last_poll_timestamp, AnyInFlight)
     THEN /\ last_trades_poll_bitget_timestamp' = time_synchronizer_time
          /\ poll_pc' = "trades"
          /\ call' = [made |-> TRUE, kind |-> "trades",
                      order_by_exchange_id_map |-> order_by_exchange_id_map(orders),
                      requested |-> last_poll_timestamp > 0,
                      query_time |-> last_trades_poll_bitget_timestamp * 1000,
                      after_failed |-> (call.made /\ call.kind = "trades_failed"),
                      failed_query_time |->
                        IF call.made /\ call.kind = "trades_failed"
                        THEN call.query_time ELSE 0,
                      changed |-> FALSE, of_tracked |-> {}]
     ELSE /\ poll_pc' = "fills"
          /\ UNCHANGED <<last_trades_poll_bitget_timestamp, call>>
  /\ UNCHANGED <<orders, venue, foreign_fills, current_trade_fills,
                 order_filled_events, current_timestamp, last_poll_timestamp,
                 place_call, cancel_call, delivered, poll_reported, fills_polled,
                 polled_unmatched>>
  /\ UNCHANGED <<frame_call, account_balances, account_available_balances,
                 balances_call, auth_call, trading_pair_symbol_map,
                 symbols_call>>

\* the fills of a response that belong to an order tracked now
FillsOfTracked(history) ==
  UNION {{<<c, history[i].idx>> :
            i \in {j \in 1..Len(history) :
                     history[j].orderId = orders[c].exchange_order_id}} :
         c \in {d \in ClientIds : IsFillable(orders[d])}}

\* the same method from the await on (lines 524-587): the response is taken
\* apart with the snapshot made before the request.  fetched: whether the GET
\* succeeded; `"data" in results[0]` raises on a failed one and ends the pass.
FinishPollFillsFromTrades(fetched) ==
  /\ poll_pc = "trades"
  /\ call.made /\ call.kind = "trades"
  /\ IF call.requested
     THEN IF fetched
          THEN LET data == [i \in 1..Len(TradeHistory) |->
                              DataElement(TradeHistory[i])]
                   st == fills_poll_zip(
                           [orders |-> orders, fills |-> current_trade_fills,
                            events |-> order_filled_events],
                           data, trading_pairs, call.order_by_exchange_id_map)
               IN /\ orders' = st.orders
                  /\ current_trade_fills' = st.fills
                  /\ order_filled_events' = st.events
                  /\ poll_pc' = "fills"
                  /\ call' = [call EXCEPT
                                !.kind = "trades_done",
                                !.changed = (order_by_exchange_id_map(orders)
                                               # call.order_by_exchange_id_map),
                                !.of_tracked = FillsOfTracked(TradeHistory)]
          ELSE /\ poll_pc' = "idle"
               /\ call' = [made |-> TRUE, kind |-> "trades_failed",
                           query_time |-> call.query_time]
               /\ UNCHANGED <<orders, current_trade_fills, order_filled_events>>
     ELSE /\ fetched
          /\ poll_pc' = "fills"
          /\ call' = NoCall
          /\ UNCHANGED <<orders, current_trade_fills, order_filled_events>>
  /\ UNCHANGED <<venue, foreign_fills, current_timestamp, last_poll_timestamp,
                 last_trades_poll_bitget_timestamp, place_call, cancel_call,
                 delivered, poll_reported, fills_polled, polled_unmatched>>
  /\ UNCHANGED <<frame_call, account_balances, account_available_balances,
                 balances_call, auth_call, trading_pair_symbol_map,
                 symbols_call>>

\* placement, the stream and the polling pass, the other tasks running while
\* the trade-history request is awaited
NextRace ==
  \/ \E c \in ClientIds, amt \in 1..MaxAmount : StartTracking(c, amt)
  \/ \E c \in ClientIds : \E post \in PlacePosts(c), a \in BOOLEAN, h \in BOOLEAN :
       PlaceOrder(c, post, a, h)
  \/ \E c \in ClientIds, sz \in 1..MaxAmount : VenueExecute(c, sz)
  \/ Tick
  \/ \E payload \in Frames : UserStreamEventSeen(payload)
  \/ BeginPollFillsFromTrades
  \/ \E fetched \in BOOLEAN : FinishPollFillsFromTrades(fetched)
  \/ \E fetched \in SUBSET ClientIds : PollOrderFills(fetched)
  \/ \E fetched \in SUBSET ClientIds : PollOrderStatus(fetched)

SpecRace == Init /\ [][NextRace]_vars

\* C30: when the response of a trade-history poll is processed and the
\* tracked orders have changed while its request was in flight, every fill
\* in it of an order tracked at that moment is applied to that order (by the
\* poll, or by the stream before it) and no standalone OrderFilled event
\* exists for it.
C30_PolledFillOfTrackedOrderApplied ==
  (call.made /\ call.kind = "trades_done" /\ call.changed /\ poll_pc = "fills") =>
    \A f \in call.of_tracked :
      /\ \/ VenueTradeId(f[1], f[2]) \in orders[f[1]].order_fills
         \/ f \in delivered
      /\ \A i \in 1..Len(order_filled_events) :
           order_filled_events[i] # VenueTradeId(f[1], f[2])

\* the second half alone: no standalone event for a fill of a tracked order
C30_NoStandaloneFillOfTrackedOrder ==
  \A c \in ClientIds : \A j \in 1..Len(venue[c].log) :
    \A i \in 1..Len(order_filled_events) :
      order_filled_events[i] # VenueTradeId(c, j)

\* C31: the pass after a failed trade-history pass asks again for the window
\* of the failed one: the start time it sends is not later than the start
\* time the failed pass sent.
C31_FailedWindowAskedAgain ==
  (call.made /\ call.kind = "trades" /\ call.requested /\ call.after_failed) =>
    call.query_time <= call.failed_query_time

\* ------------------------------ the trade-history requests of one pass
\* lines 506-521: the loop over the configured pairs binds params anew for
\* each pair and sends nothing; the debug line after it reads params (unbound
\* when no pair is configured); one task is then appended, with the params
\* the loop left, when a pass has completed before.
RECURSIVE last_params(_, _)
last_params(pairs, params) ==
  IF pairs = <<>> THEN params
  ELSE last_params(Tail(pairs),
                   [bound |-> TRUE, symbol |-> format_symbol(without_dash(Head(pairs)))])

trade_history_tasks(pairs, polled, query_time) ==
  LET params == last_params(pairs, [bound |-> FALSE, symbol |-> None])
  IN IF ~params.bound THEN [raised |-> TRUE, tasks |-> <<>>]
     ELSE [raised |-> FALSE,
           tasks |-> IF polled
                     THEN <<[symbol |-> params.symbol, startTime |-> query_time]>>
                     ELSE <<>>]

\* the requests of a pass of a connector configured with these pairs
TradeHistoryTasks(pairs, polled, t) ==
  /\ ~call.made
  /\ call' = [made |-> TRUE, kind |-> "tasks", pairs |-> pairs, polled |-> polled,
              out |-> trade_history_tasks(pairs, polled, t * 1000)]
  /\ UNCHANGED order_vars
  /\ UNCHANGED <<frame_call, account_balances, account_available_balances,
                 balances_call, auth_call, trading_pair_symbol_map,
                 symbols_call>>

NextPairs ==
  \E pairs \in UNION {[1..n -> {"BTC-USDT", "ETH-USDT", "ETH-BTC"}] : n \in 0..MaxPairs},
     polled \in BOOLEAN, t \in 1..MaxTime :
    TradeHistoryTasks(pairs, polled, t)

SpecPairs == Init /\ [][NextPairs]_vars

\* C32: a pass ends without error whatever pairs are configured, and a pass
\* that fetches sends one request for each configured pair, the i-th with the
\* symbol of the i-th pair.
C32_OneRequestPerPair ==
  (call.made /\ call.kind = "tasks") =>
    /\ ~call.out.raised
    /\ call.polled =>
         /\ Len(call.out.tasks) = Len(call.pairs)
         /\ \A i \in 1..Len(call.pairs) :
              call.out.tasks[i].symbol = format_symbol(without_dash(call.pairs[i]))

\* with exactly one pair configured the one request names that pair
C32_SinglePairOneRequest ==
  (call.made /\ call.kind = "tasks" /\ Len(call.pairs) = 1) =>
    /\ ~call.out.raised
    /\ call.polled =>
         /\ Len(call.out.tasks) = 1
         /\ call.out.tasks[1].symbol = format_symbol(without_dash(call.pairs[1]))

\* C33: an order message for a tracked order that carries a mapped status
\* and no fill fields has its status part applied: the order is as the status
\* handler alone leaves it.
C33_StatusAppliedWithoutFillFields ==
  (/\ frame_call.made
   /\ Len(frame_call.payload) = 1
   /\ frame_call.payload[1].clOrdId = "c1"
   /\ frame_call.payload[1].status \in DOMAIN ORDER_STATE
   /\ ~frame_call.payload[1].hasFill)
    => orders = process_order_event_message(frame_call.before,
                                            frame_call.payload[1]).orders

\* the order of the two parts: a message with its fill fields has the fill
\* part applied first, the status part to what the fill part left
C33_FillPartThenStatusPart ==
  (/\ frame_call.made
   /\ Len(frame_call.payload) = 1
   /\ frame_call.payload[1].status \in DOMAIN ORDER_STATE
   /\ frame_call.payload[1].hasFill)
    => orders = process_order_event_message(
                  process_trade_event_message(frame_call.before,
                                              frame_call.payload[1]).orders,
                  frame_call.payload[1]).orders

\* C34: a balance refresh that got a snapshot ends without raising, whatever
\* the tables held before and whatever the snapshot holds.
C34_RefreshNeverRaises ==
  (balances_call.made /\ balances_call.response.kind = "ok") =>
    ~balances_call.raised

\* a refresh whose snapshot names every asset known before it does not raise
C34_NothingToRemoveNoRaise ==
  (/\ balances_call.made
   /\ balances_call.response.kind = "ok"
   /\ balances_call.local_asset_names \subseteq
        {balances_call.response.data[i].coin :
           i \in 1..Len(balances_call.response.data)})
    => ~balances_call.raised

====
